---- MODULE Spec2Model ----
(***************************************************************************)
(* The order execution engine of backend/services/polymarket_executor.py  *)
(* as a state machine: one execute_order invocation, run step by step     *)
(* against a venue whose responses are chosen when each request is made.  *)
(*                                                                         *)
(* Decimal values (prices, sizes, notionals) are exact integers: a price  *)
(* p stands for p / PriceScale, a size is a whole number of shares.       *)
(* Python's None is NoneStr for strings and the empty sequence for ints.  *)
(***************************************************************************)
EXTENDS Integers, Sequences, FiniteSets, TLC

\* ---------------------------------------------------------------- values

NoneStr == "<None>"
NoInt == <<>>
Some(v) == <<v>>

\* Python truthiness of an optional string / optional int
Truthy(s) == s \notin {NoneStr, ""}
TruthyInt(o) == o # NoInt /\ o[1] # 0

\* x or d, for an optional int x
OrInt(o, d) == IF TruthyInt(o) THEN o[1] ELSE d
\* x or d, for an optional string x
OrStr(s, d) == IF Truthy(s) THEN s ELSE d

\* basis points per unit (max_slippage_bps / 10000)
BPS == 10000
\* prices are held in units of 1 / PriceScale
PriceScale == BPS
\* base units per unit (amount * 1_000_000)
BASE_UNITS == 1000000

\* module configuration (defaults of the environment lookups)
DEFAULT_TTL == 600
DEFAULT_SLIPPAGE_BPS == 100
DEFAULT_MAX_ORDER_USDC == 500
CHAIN_ID == 137

\* ---------------------------------------------------------------- bounds

\* pages the scan may fetch before the model stops following the venue's cursors
MaxPages == 2
\* markets listed on one page
MaxPageLen == 2

\* ------------------------------------------------------- string functions

\* str.lower() on the identifiers the model uses
Lower(s) ==
  CASE s = "0xAB" -> "0xab"
    [] s = "0xAb" -> "0xab"
    [] s = "0xCD" -> "0xcd"
    [] OTHER -> s

\* int(s) succeeds exactly on decimal strings; the token ids of the model
IntTable == ("11" :> 11) @@ ("12" :> 12) @@ ("13" :> 13)
IsDecimal(s) == s \in DOMAIN IntTable

\* Account.from_key(pk): the keys it accepts and the address it derives
AddressTable == ("0xKEY1" :> "0xMaker1")
ValidKey(pk) == pk \in DOMAIN AddressTable

\* str(n) for an integer n, as its sequence of characters
DigitChar == <<"0", "1", "2", "3", "4", "5", "6", "7", "8", "9">>

RECURSIVE NatStr(_)
NatStr(n) == IF n < 10 THEN <<DigitChar[n + 1]>>
             ELSE Append(NatStr(n \div 10), DigitChar[(n % 10) + 1])

IntStr(n) == IF n < 0 THEN <<"-">> \o NatStr(-n) ELSE NatStr(n)

\* int(s) for a string produced by str(n)
DigitVal(c) == CHOOSE d \in 0..9 : DigitChar[d + 1] = c

RECURSIVE ParseNat(_)
ParseNat(s) == IF s = <<>> THEN 0
               ELSE 10 * ParseNat(SubSeq(s, 1, Len(s) - 1)) + DigitVal(s[Len(s)])

ParseInt(s) == IF s # <<>> /\ s[1] = "-" THEN -ParseNat(Tail(s)) ELSE ParseNat(s)

\* round(n / d) for d > 0: Python 3 rounds ties to the even neighbour
PyRound(n, d) ==
  LET q == n \div d
      r == n % d
  IN  IF 2 * r < d THEN q
      ELSE IF 2 * r > d THEN q + 1
      ELSE IF q % 2 = 0 THEN q ELSE q + 1

\* the finest amounts of the model have seven decimals: n / FineScale
FineScale == 10 * BASE_UNITS

\* amount * 1_000_000 is a product of doubles. For the amounts n / FineScale
\* of the model it is the exact product, but for these ties, whose product
\* comes out a hair below (-1) or above (1) the half:
\* 0.0001255 * 1e6 = 125.49999999999999, 0.0001265 * 1e6 = 126.50000000000001,
\* 0.5000005 * 1e6 = 500000.49999999994, 1.0000005 * 1e6 = 1000000.5000000001
OffHalf == (1255 :> -1) @@ (1265 :> 1) @@ (5000005 :> -1) @@ (10000005 :> 1)

\* mutant: the amount is rounded without being scaled to base units
to_base_units_Unscaled(n, d) == IntStr(PyRound(n, d))

\* to_base_units(amount) for amount = n / d: str(int(round(amount * 1_000_000)))
to_base_units(n, d) ==
  IF BASE_UNITS % d = 0 THEN IntStr(n * (BASE_UNITS \div d))
  ELSE LET k == d \div BASE_UNITS
           off == IF d = FineScale /\ n \in DOMAIN OffHalf THEN OffHalf[n] ELSE 0
       IN  IntStr(PyRound(4 * n + off, 4 * k))

\* ------------------------------------------------------------ the venue

Tok(id, label) == [token_id |-> id, outcome |-> label]

Mkt(cid, mid, qid, toks) ==
  [condition_id |-> cid, id |-> mid, question_id |-> qid, tokens |-> toks]

\* matches the requested id by condition_id; two outcomes
MktYesNo == Mkt("0xAb", NoneStr, NoneStr, <<Tok("11", "Yes"), Tok("12", "No")>>)
\* matches by id; three outcomes, the second without a label
MktThree == Mkt(NoneStr, "0xab", NoneStr,
                <<Tok("11", "A"), Tok("12", NoneStr), Tok("13", "C")>>)
\* matches by question_id; no tokens
MktEmpty == Mkt("0xCD", NoneStr, "0xAB", <<>>)
\* matches by condition_id; the first token has no token_id
MktNoTid == Mkt("0xab", "77", NoneStr, <<Tok(NoneStr, "Yes"), Tok("12", "No")>>)
\* matches by id; the second and third outcome list the same token_id
MktTwins == Mkt(NoneStr, "0xAB", NoneStr,
                <<Tok("11", "A"), Tok("13", "B"), Tok("13", "C")>>)
\* matches none of the three identifiers
MktOther == Mkt("0xCD", "78", NoneStr, <<Tok("13", "Yes"), Tok("12", "No")>>)

Markets == {MktYesNo, MktThree, MktEmpty, MktNoTid, MktTwins, MktOther}

\* a response is 2xx ("ok"), non-2xx ("fail"), or the request raised ("exc")
Kinds == {"ok", "fail", "exc"}

\* GET /markets/{id}
LookupResponses ==
  [kind : {"ok"}, market : Markets] \cup [kind : {"fail", "exc"}, market : {MktOther}]

\* GET /markets?next_cursor=...: {data: [Market], next_cursor}
Cursors == {"", "LTE=", "c1"}

\* the markets the listing holds: two that match the requested id, by
\* different fields, and one that does not
ListedMarkets == {MktYesNo, MktThree, MktOther}

PageData == UNION {[1..n -> ListedMarkets] : n \in 0..MaxPageLen}

PageResponses ==
  [kind : {"ok"}, data : PageData, next_cursor : Cursors]
    \cup [kind : {"fail", "exc"}, data : {<<>>}, next_cursor : {""}]

\* GET /book?token_id=...: price levels (price, size) as the venue lists them
Level(p) == <<p, 10>>

BookSides == {<<>>, <<Level(6000)>>, <<Level(6001), Level(5999)>>}

BookResponses ==
  [kind : {"ok"}, bids : BookSides, asks : BookSides]
    \cup [kind : {"fail", "exc"}, bids : {<<>>}, asks : {<<>>}]

\* POST /orders
VenueAck == [orderId |-> "o1"]

\* time.time() and uuid4().hex at the moment the order is built
Times == {1700000000}
Salts == {"5a17"}

\* ------------------------------------------------------------- the calls

\* the environment execute_order reads: os.getenv(...) and ALLOW_MISSING_BOOK
Env(rpc, pk, name, version, verifier, allow) ==
  [rpc |-> rpc, pk |-> pk, name |-> name, version |-> version,
   verifier |-> verifier, allow |-> allow]

\* the arguments of one execute_order call
Args(idx, side, size, limit, ttl, bps, dry, tid) ==
  [market_id |-> "0xAB", outcome_index |-> idx, side |-> side, size |-> size,
   limit_price |-> limit, ttl_seconds |-> ttl, max_slippage_bps |-> bps,
   dry_run |-> dry, token_id |-> tid]

CompleteEnvs ==
  {Env("rpc", "0xKEY1", "Exchange", "1", "0xVerifier", a) : a \in BOOLEAN}

AllEnvs ==
  {Env(r, k, n, v, c, a) :
     r \in {NoneStr, "rpc"}, k \in {NoneStr, "", "0xBAD", "0xKEY1"},
     n \in {NoneStr, "Exchange"}, v \in {NoneStr, "1"},
     c \in {NoneStr, "0xVerifier"}, a \in BOOLEAN}

Sides == {"buy", "sell", "hold"}
Sizes == {0, 1, 1000}
LimitPrices == {5000, 5001, 5940, 6060, 6061}
SlippageArgs == {NoInt, Some(0), Some(50), Some(100)}
TtlArgs == {NoInt, Some(0), Some(60)}
OutcomeIndexes == {-1, 0, 1, 2}
TokenIdArgs == {NoneStr, "12", "tok"}

\* every environment, with orders on either side of the notional cap
ConfigCalls ==
  {[env |-> e, args |-> Args(0, "buy", z, 5001, NoInt, NoInt, d, NoneStr)] :
     e \in AllEnvs, z \in {1, 1000}, d \in BOOLEAN}

\* every side, size, price and slippage bound, on a caller-supplied token
PricingCalls ==
  {[env |-> e, args |-> Args(0, s, z, l, NoInt, b, d, "12")] :
     e \in CompleteEnvs, s \in Sides, z \in Sizes, l \in LimitPrices,
     b \in SlippageArgs, d \in BOOLEAN}

\* every outcome index, token argument and ttl, resolved through the venue
ResolutionCalls ==
  {[env |-> e, args |-> Args(i, s, 1, 6060, t, NoInt, d, k)] :
     e \in CompleteEnvs, i \in OutcomeIndexes, s \in {"buy"},
     t \in TtlArgs, d \in BOOLEAN, k \in TokenIdArgs}

\* an empty market id, resolved through the venue
EmptyIdCalls ==
  {[env |-> e,
    args |-> [Args(0, "buy", 1, 6060, NoInt, NoInt, TRUE, NoneStr)
                EXCEPT !.market_id = ""]] : e \in CompleteEnvs}

Calls == ConfigCalls \cup PricingCalls \cup ResolutionCalls \cup EmptyIdCalls

\* ------------------------------------------------------------- the state

VARIABLES
  env,            \* the process environment
  args,           \* the arguments of the call
  pc,             \* where the call is
  stages,         \* the stages that have started, in order
  err,            \* the exception that left execute_order, or NoErr
  reqs,           \* the network requests issued, in order, with their outcome
  posted,         \* the payloads posted to /orders
  warnings,       \* outcome indexes of the "different outcome" warnings printed
  maker,          \* account.address
  market,         \* the market the resolver found, or NoMarket
  token_id, outcomes, tokens, market_id_for_book,
  next_cursor,    \* cursor of the next page request
  cursors,        \* the next_cursor values the scan read from its pages, in order
  passed_over,    \* the markets the resolver compared with the id and rejected
  alt,            \* index of the alternate token being tried
  bids, asks,
  price,
  order_body,
  signature,
  result,         \* the dict execute_order returns, or NoResult
  parked,         \* the locals of a second, suspended invocation, or NoFrame
  caller,         \* the entry point that calls execute_order, or NoCaller
  reply           \* what the entry point answered with, or NoReply

vars == <<env, args, pc, stages, err, reqs, posted, warnings, maker, market, token_id,
          outcomes, tokens, market_id_for_book, next_cursor, cursors, passed_over,
          alt, bids, asks, price, order_body, signature, result, parked,
          caller, reply>>

NoErr == [stage |-> "", kind |-> ""]
NoMarket == [found |-> FALSE]
EmptyBook == [bids |-> <<>>, asks |-> <<>>]
NoBody == [token_id |-> NoneStr]
NoSig == [key |-> NoneStr]
NoResult == [maker |-> NoneStr]
NoPrice == 0 - 1
NoFrame == [pc |-> "none"]
NoCaller == [via |-> "direct"]
NoReply == [status |-> 0]

\* a request: endpoint, parameter, outcome, and the book a 2xx /book carried
Req(ep, arg, kind, book) == [ep |-> ep, arg |-> arg, kind |-> kind, book |-> book]

Init ==
  \E c \in Calls :
    /\ env = c.env
    /\ args = c.args
    /\ pc = "config"
    /\ stages = <<>>
    /\ err = NoErr
    /\ reqs = <<>>
    /\ posted = <<>>
    /\ warnings = <<>>
    /\ maker = NoneStr
    /\ market = NoMarket
    /\ token_id = c.args.token_id
    /\ outcomes = <<>>
    /\ tokens = <<>>
    /\ market_id_for_book = NoneStr
    /\ next_cursor = ""
    /\ cursors = <<>>
    /\ passed_over = {}
    /\ alt = 0
    /\ bids = <<>>
    /\ asks = <<>>
    /\ price = NoPrice
    /\ order_body = NoBody
    /\ signature = NoSig
    /\ result = NoResult
    /\ parked = NoFrame
    /\ caller = NoCaller
    /\ reply = NoReply

\* ------------------------------------------------------------- helpers

\* fail(msg): print the error and raise; the exception leaves execute_order
Raise(stage, msg) ==
  /\ err' = [stage |-> stage, kind |-> msg]
  /\ pc' = "failed"

\* a requests call that raised (timeout, connection error)
Transport == "transport failure"

Enter(stage) == stages' = Append(stages, stage)

Issue(ep, arg, kind, book) == reqs' = Append(reqs, Req(ep, arg, kind, book))

Count(ep) == Cardinality({i \in 1..Len(reqs) : reqs[i].ep = ep})

\* ---------------------------------------------- preconditions and policy

\* mutant: the verifying contract is not required
ConfigError_NoVerifier(e) ==
  IF ~Truthy(e.rpc) THEN "POLYGON_RPC_URL is required"
  ELSE IF ~Truthy(e.pk) THEN "POLYMARKET_PRIVATE_KEY is required"
  ELSE IF ~(Truthy(e.name) /\ Truthy(e.version))
    THEN "EIP712 name, version, verifier are required for signing"
  ELSE ""

\* the first failing precondition's message, or "" when all are present
ConfigError(e) ==
  IF ~Truthy(e.rpc) THEN "POLYGON_RPC_URL is required"
  ELSE IF ~Truthy(e.pk) THEN "POLYMARKET_PRIVATE_KEY is required"
  ELSE IF ~(Truthy(e.name) /\ Truthy(e.version) /\ Truthy(e.verifier))
    THEN "EIP712 name, version, verifier are required for signing"
  ELSE ""

CheckConfig ==
  /\ pc = "config"
  /\ Enter("config")
  /\ IF ConfigError(env) # "" THEN Raise("config", ConfigError(env))
     ELSE pc' = "policy" /\ UNCHANGED err
  /\ UNCHANGED <<parked, caller, reply, env, args, reqs, posted, warnings, maker, market, token_id, outcomes,
                 tokens, market_id_for_book, next_cursor, cursors, passed_over, alt, bids, asks,
                 price, order_body, signature, result>>

\* mutant: the notional is compared as a whole number of USDC
NotionalExceedsCap_Truncated(size, limit_price) ==
  (size * limit_price) \div PriceScale > DEFAULT_MAX_ORDER_USDC

\* mutant: the cap itself is rejected (>= for >)
NotionalExceedsCap_AtCap(size, limit_price) ==
  size * limit_price >= DEFAULT_MAX_ORDER_USDC * PriceScale

\* notional > DEFAULT_MAX_ORDER_USDC, for notional = size * limit_price
NotionalExceedsCap(size, limit_price) ==
  size * limit_price > DEFAULT_MAX_ORDER_USDC * PriceScale

SafetyPolicy ==
  /\ pc = "policy"
  /\ Enter("policy")
  /\ IF NotionalExceedsCap(args.size, args.limit_price)
       THEN Raise("policy", "Order notional exceeds cap")
       ELSE pc' = "account" /\ UNCHANGED err
  /\ UNCHANGED <<parked, caller, reply, env, args, reqs, posted, warnings, maker, market, token_id, outcomes,
                 tokens, market_id_for_book, next_cursor, cursors, passed_over, alt, bids, asks,
                 price, order_body, signature, result>>

\* account = Account.from_key(pk); maker = account.address
DeriveMaker ==
  /\ pc = "account"
  /\ Enter("account")
  /\ IF ValidKey(env.pk)
       THEN maker' = AddressTable[env.pk] /\ pc' = "resolve" /\ UNCHANGED err
       ELSE Raise("account", "invalid private key") /\ UNCHANGED maker
  /\ UNCHANGED <<parked, caller, reply, env, args, reqs, posted, warnings, market, token_id, outcomes,
                 tokens, market_id_for_book, next_cursor, cursors, passed_over, alt, bids, asks,
                 price, order_body, signature, result>>

\* ------------------------------------------------------------- resolver

\* (m.get(k) or "").lower()
IdOf(v) == Lower(OrStr(v, ""))

\* the lowered request id is one of the market's condition_id, id, question_id
MarketMatches(m, condition_id) ==
  condition_id \in {IdOf(m.condition_id), IdOf(m.id), IdOf(m.question_id)}

\* mutant: the last listed market that matches is taken, not the first
FirstMatch_Last(data, condition_id) ==
  IF \E i \in 1..Len(data) : MarketMatches(data[i], condition_id)
    THEN CHOOSE i \in 1..Len(data) :
           /\ MarketMatches(data[i], condition_id)
           /\ \A j \in (i + 1)..Len(data) : ~MarketMatches(data[j], condition_id)
    ELSE 0

\* index into data of the first listed market that matches, or 0
FirstMatch(data, condition_id) ==
  IF \E i \in 1..Len(data) : MarketMatches(data[i], condition_id)
    THEN CHOOSE i \in 1..Len(data) :
           /\ MarketMatches(data[i], condition_id)
           /\ \A j \in 1..(i - 1) : ~MarketMatches(data[j], condition_id)
    ELSE 0

\* mutant: a negative index is not rejected
OutcomeIndexOutOfRange_NoLower(idx, toks) == idx >= Len(toks)

\* outcome_index < 0 or outcome_index >= len(tokens)
OutcomeIndexOutOfRange(idx, toks) == idx < 0 \/ idx >= Len(toks)

\* toks[idx] with Python's indexing: a negative index counts from the end
PyIndex(toks, idx) == IF idx < 0 THEN toks[Len(toks) + idx + 1] ELSE toks[idx + 1]

\* mutant: only the tokens that carry a label are listed
OutcomeLabels_Labelled(toks) ==
  LET labelled == SelectSeq(toks, LAMBDA t : Truthy(t.outcome))
  IN  [i \in 1..Len(labelled) |-> labelled[i].outcome]

\* [t.get("outcome") or f"outcome_{i}" for i, t in enumerate(tokens)]
OutcomeLabels(toks) ==
  [i \in 1..Len(toks) |-> OrStr(toks[i].outcome, "outcome_" \o ToString(i - 1))]

\* get_token_info once the market is found: validate, pick the token
SelectToken(m) ==
  LET toks == m.tokens
      idx == args.outcome_index
  IN  /\ market' = m
      /\ IF toks = <<>>
           THEN /\ Raise("resolver", "No tokens in CLOB market response")
                /\ UNCHANGED <<token_id, outcomes, tokens, market_id_for_book>>
         ELSE IF OutcomeIndexOutOfRange(idx, toks)
           THEN /\ Raise("resolver", "Outcome index out of range")
                /\ UNCHANGED <<token_id, outcomes, tokens, market_id_for_book>>
         ELSE IF ~Truthy(PyIndex(toks, idx).token_id)
           THEN /\ Raise("resolver", "Missing token_id for selected outcome")
                /\ UNCHANGED <<token_id, outcomes, tokens, market_id_for_book>>
         ELSE /\ token_id' = PyIndex(toks, idx).token_id
              /\ outcomes' = OutcomeLabels(toks)
              /\ tokens' = toks
              /\ market_id_for_book' = OrStr(m.id, args.market_id)
              /\ pc' = "book"
              /\ UNCHANGED err

\* mutant: the outcome index is checked although the token was supplied
UseProvidedToken_Validated ==
  /\ pc = "resolve"
  /\ Truthy(args.token_id)
  /\ Enter("resolver")
  /\ IF args.outcome_index < 0
       THEN /\ Raise("resolver", "Outcome index out of range")
            /\ UNCHANGED <<market_id_for_book, outcomes, tokens>>
       ELSE /\ market_id_for_book' = args.market_id
            /\ outcomes' = <<>>
            /\ tokens' = <<>>
            /\ pc' = "book"
            /\ UNCHANGED err
  /\ UNCHANGED <<parked, caller, reply, env, args, reqs, posted, warnings, maker, market, token_id,
                 next_cursor, cursors, passed_over, alt, bids, asks, price, order_body, signature,
                 result>>

\* if token_id: the caller's token is used and no market is resolved
UseProvidedToken ==
  /\ pc = "resolve"
  /\ Truthy(args.token_id)
  /\ Enter("resolver")
  /\ market_id_for_book' = args.market_id
  /\ outcomes' = <<>>
  /\ tokens' = <<>>
  /\ pc' = "book"
  /\ UNCHANGED <<parked, caller, reply, env, args, err, reqs, posted, warnings, maker, market, token_id,
                 next_cursor, cursors, passed_over, alt, bids, asks, price, order_body, signature,
                 result>>

\* fast path: GET /markets/{id}; anything but a matching 2xx falls to the scan
PointLookup ==
  /\ pc = "resolve"
  /\ ~Truthy(args.token_id)
  /\ Enter("resolver")
  /\ \E r \in LookupResponses :
       /\ Issue("lookup", Lower(args.market_id), r.kind, EmptyBook)
       /\ IF r.kind = "ok" /\ MarketMatches(r.market, Lower(args.market_id))
            THEN SelectToken(r.market) /\ UNCHANGED passed_over
            ELSE /\ pc' = "scan"
                 /\ passed_over' = IF r.kind = "ok" THEN {r.market} ELSE {}
                 /\ UNCHANGED <<err, market, token_id, outcomes, tokens,
                                market_id_for_book>>
  /\ next_cursor' = ""
  /\ UNCHANGED <<parked, caller, reply, env, args, posted, warnings, maker, cursors, alt, bids, asks,
                 price, order_body, signature, result>>

\* the markets of a page the loop compared with the id before it returned
\* data[hit], or all of them when the loop ran to its end (hit = 0)
Compared(data, hit) ==
  {data[i] : i \in 1..(IF hit = 0 THEN Len(data) ELSE hit - 1)}

\* mutant: only an empty cursor ends the scan, the sentinel is followed
EndOfList_NoSentinel(nc) == ~Truthy(nc)

\* not nc or nc == "LTE=": the page just read is the last one
EndOfList(nc) == ~Truthy(nc) \/ nc = "LTE="

\* mutant: the page's status is not checked, its payload is read anyway
PageFailed_Ignored(kind) == FALSE

\* if not resp.ok: the page fetch answered non-2xx
PageFailed(kind) == kind = "fail"

\* one iteration of the scan: GET /markets?next_cursor=<cursor>
FetchPage ==
  /\ pc = "scan"
  /\ Count("page") < MaxPages
  /\ \E r \in PageResponses :
       LET cid == Lower(args.market_id)
           hit == FirstMatch(r.data, cid)
       IN  /\ Issue("page", next_cursor, r.kind, EmptyBook)
           /\ IF r.kind = "exc"
                THEN /\ Raise("resolver", Transport)
                     /\ UNCHANGED <<market, token_id, outcomes, tokens,
                                    market_id_for_book, next_cursor, cursors, passed_over>>
              ELSE IF PageFailed(r.kind)
                THEN /\ Raise("resolver", "CLOB markets fetch failed")
                     /\ UNCHANGED <<market, token_id, outcomes, tokens,
                                    market_id_for_book, next_cursor, cursors, passed_over>>
              ELSE IF hit # 0
                THEN /\ SelectToken(r.data[hit])
                     /\ passed_over' = passed_over \cup Compared(r.data, hit)
                     /\ UNCHANGED <<next_cursor, cursors>>
              ELSE /\ cursors' = Append(cursors, r.next_cursor)
                   /\ passed_over' = passed_over \cup Compared(r.data, hit)
                   /\ IF EndOfList(r.next_cursor)
                        THEN /\ Raise("resolver", "No CLOB market found")
                             /\ UNCHANGED <<market, token_id, outcomes, tokens,
                                            market_id_for_book, next_cursor>>
                        ELSE /\ next_cursor' = r.next_cursor
                             /\ UNCHANGED <<pc, err, market, token_id, outcomes,
                                            tokens, market_id_for_book>>
  /\ UNCHANGED <<parked, caller, reply, env, args, stages, posted, warnings, maker, alt, bids, asks,
                 price, order_body, signature, result>>

\* ---------------------------------------------------------- book client

\* 0-based indexes of the tokens the fallback loop fetches: those with a
\* token_id that is not in tried_tokens (which holds the primary only)
IsCandidate(toks, primary, idx) ==
  /\ Truthy(toks[idx + 1].token_id)
  /\ toks[idx + 1].token_id # primary

\* the first candidate index >= from, or Len(toks) when the loop is over
NextCandidate(toks, primary, from) ==
  IF \E i \in from..(Len(toks) - 1) : IsCandidate(toks, primary, i)
    THEN CHOOSE i \in from..(Len(toks) - 1) :
           /\ IsCandidate(toks, primary, i)
           /\ \A j \in from..(i - 1) : ~IsCandidate(toks, primary, j)
    ELSE Len(toks)

\* mutant: a fetch that raised is treated like a non-2xx response
FallbackApplies_OnRaise(kind, toks) == kind \in {"fail", "exc"} /\ toks # <<>>

\* the fallback loop runs: the primary fetch returned a non-2xx response (a
\* fetch that raised has already left get_orderbook) and tokens is non-empty
FallbackApplies(kind, toks) == kind = "fail" /\ toks # <<>>

\* mutant: the warning is never printed
DegradedMatch_Never(idx, desired) == FALSE

\* desired_outcome_index is not None and idx != desired_outcome_index
DegradedMatch(idx, desired) == idx # desired

\* mutant: the opt-in alone swallows the failure, in live mode too
UseEmptyBook_OptInOnly(dry_run, allow) == allow

\* mutant: the failure of the book client is swallowed in every mode
UseEmptyBook_Always(dry_run, allow) == TRUE

\* mutant: either condition alone swallows the failure (or for and)
UseEmptyBook_Either(dry_run, allow) == dry_run \/ allow

\* except-clause of execute_order: dry_run and ALLOW_MISSING_BOOK
UseEmptyBook(dry_run, allow) == dry_run /\ allow

\* get_orderbook raised msg; execute_order swallows it or lets it through
BookRaised(msg) ==
  IF UseEmptyBook(args.dry_run, env.allow)
    THEN /\ bids' = <<>>
         /\ asks' = <<>>
         /\ pc' = "price"
         /\ UNCHANGED err
    ELSE /\ Raise("book", msg)
         /\ UNCHANGED <<bids, asks>>

NoBook == "No orderbook available"

\* after a non-2xx answer: on to the next candidate, or out of candidates
TryNext(from) ==
  IF NextCandidate(tokens, token_id, from) < Len(tokens)
    THEN /\ alt' = NextCandidate(tokens, token_id, from)
         /\ pc' = "alt"
         /\ UNCHANGED <<err, bids, asks>>
    ELSE BookRaised(NoBook) /\ UNCHANGED alt

\* mutant: a 2xx book without any level is not taken as the book
BookReturned_NonEmpty(kind, bs, as) == kind = "ok" /\ (bs # <<>> \/ as # <<>>)

\* if resp.ok: the book of the response is returned, whatever it holds
BookReturned(kind, bs, as) == kind = "ok"

\* resp = _fetch_by_token(token_id)
FetchPrimaryBook ==
  /\ pc = "book"
  /\ Enter("book")
  /\ \E r \in BookResponses :
       /\ Issue("book", token_id, r.kind, [bids |-> r.bids, asks |-> r.asks])
       /\ IF BookReturned(r.kind, r.bids, r.asks)
            THEN /\ bids' = r.bids
                 /\ asks' = r.asks
                 /\ pc' = "price"
                 /\ UNCHANGED <<err, alt>>
          ELSE IF FallbackApplies(r.kind, tokens)
            THEN TryNext(0)
          ELSE /\ BookRaised(IF r.kind = "exc" THEN Transport ELSE NoBook)
               /\ UNCHANGED alt
  /\ UNCHANGED <<parked, caller, reply, env, args, posted, warnings, maker, market, token_id, outcomes,
                 tokens, market_id_for_book, next_cursor, cursors, passed_over, price, order_body,
                 signature, result>>

\* mutant: the loop goes on to the next sibling after a 2xx answer
AlternateReturned_Never(kind) == FALSE

\* if resp_alt.ok: the sibling's book is returned and the loop is left
AlternateReturned(kind) == kind = "ok"

\* resp_alt = _fetch_by_token(tid), for tid = tokens[alt].token_id
FetchAlternateBook ==
  /\ pc = "alt"
  /\ \E r \in BookResponses :
       /\ Issue("book", tokens[alt + 1].token_id, r.kind,
             [bids |-> r.bids, asks |-> r.asks])
       /\ IF AlternateReturned(r.kind)
            THEN /\ bids' = r.bids
                 /\ asks' = r.asks
                 /\ warnings' = IF DegradedMatch(alt, args.outcome_index)
                                  THEN Append(warnings, alt) ELSE warnings
                 /\ pc' = "price"
                 /\ UNCHANGED <<err, alt>>
          ELSE IF r.kind = "exc"
            THEN BookRaised(Transport) /\ UNCHANGED <<alt, warnings>>
          ELSE TryNext(alt + 1) /\ UNCHANGED warnings
  /\ UNCHANGED <<parked, caller, reply, env, args, stages, posted, maker, market, token_id, outcomes,
                 tokens, market_id_for_book, next_cursor, cursors, passed_over, price, order_body,
                 signature, result>>

\* ------------------------------------------------------- price selector

\* mutant: with its own side empty the guard takes the other side's best
BestPrice_OtherSide(side, bs, as) ==
  IF side = "buy" /\ as # <<>> THEN Some(as[1][1])
  ELSE IF side = "sell" /\ bs # <<>> THEN Some(bs[1][1])
  ELSE IF side = "buy" /\ bs # <<>> THEN Some(bs[1][1])
  ELSE IF side = "sell" /\ as # <<>> THEN Some(as[1][1])
  ELSE NoInt

\* asks[0][0] for a buy with asks, bids[0][0] for a sell with bids, else None
BestPrice(side, bs, as) ==
  IF side = "buy" /\ as # <<>> THEN Some(as[1][1])
  ELSE IF side = "sell" /\ bs # <<>> THEN Some(bs[1][1])
  ELSE NoInt

\* mutant: no slack is granted, the bound is the best price itself
AllowedTimesBps_NoSlack(side, best, bps) == best * BPS

\* allowed * BPS, for allowed = best * (1 +/- max_slippage_bps / 10000)
AllowedTimesBps(side, best, bps) ==
  IF side = "buy" THEN best * (BPS + bps) ELSE best * (BPS - bps)

\* mutant: a limit price equal to the bound is rejected too
SlippageError_Inclusive(side, limit_price, best, bps) ==
  IF side = "buy" /\ limit_price * BPS >= AllowedTimesBps(side, best, bps)
    THEN "Buy price exceeds slippage guard"
  ELSE IF side = "sell" /\ limit_price * BPS <= AllowedTimesBps(side, best, bps)
    THEN "Sell price below slippage guard"
  ELSE ""

\* the guard's verdict: the message pick_price fails with, or ""
SlippageError(side, limit_price, best, bps) ==
  IF side = "buy" /\ limit_price * BPS > AllowedTimesBps(side, best, bps)
    THEN "Buy price exceeds slippage guard"
  ELSE IF side = "sell" /\ limit_price * BPS < AllowedTimesBps(side, best, bps)
    THEN "Sell price below slippage guard"
  ELSE ""

\* mutant: an order that passes the guard is priced at the best book price
pick_price_AtBest(side, limit_price, bs, as, max_slippage_bps) ==
  LET best == BestPrice(side, bs, as)
  IN  IF best = NoInt THEN [raised |-> "", value |-> limit_price]
      ELSE [raised |-> SlippageError(side, limit_price, best[1], max_slippage_bps),
            value |-> best[1]]

\* pick_price: [raised |-> message or "", value |-> the price returned]
pick_price(side, limit_price, bs, as, max_slippage_bps) ==
  LET best == BestPrice(side, bs, as)
  IN  IF best = NoInt THEN [raised |-> "", value |-> limit_price]
      ELSE [raised |-> SlippageError(side, limit_price, best[1], max_slippage_bps),
            value |-> limit_price]

\* max_slippage_bps or DEFAULT_SLIPPAGE_BPS
EffectiveSlippage(a) == OrInt(a.max_slippage_bps, DEFAULT_SLIPPAGE_BPS)

\* mutant: the order is built at the limit price without the slippage check
PickPrice_Skipped ==
  /\ pc = "price"
  /\ price' = args.limit_price
  /\ pc' = "build"
  /\ UNCHANGED <<parked, caller, reply, env, args, stages, err, reqs, posted, warnings, maker, market,
                 token_id, outcomes, tokens, market_id_for_book, next_cursor,
                 cursors, passed_over, alt, bids, asks, order_body, signature, result>>

PickPrice ==
  /\ pc = "price"
  /\ Enter("price")
  /\ LET r == pick_price(args.side, args.limit_price, bids, asks,
                         EffectiveSlippage(args))
     IN  IF r.raised # ""
           THEN Raise("price", r.raised) /\ UNCHANGED price
           ELSE price' = r.value /\ pc' = "build" /\ UNCHANGED err
  /\ UNCHANGED <<parked, caller, reply, env, args, reqs, posted, warnings, maker, market, token_id, outcomes,
                 tokens, market_id_for_book, next_cursor, cursors, passed_over, alt, bids, asks,
                 order_body, signature, result>>

\* -------------------------------------------------------- order builder

\* mutant: the order is built for the token whose book was returned
build_order_body_BookToken(mk, tid, side, p, size, ttl_seconds, now, salt) ==
  [token_id |-> IF warnings # <<>> THEN tokens[alt + 1].token_id ELSE tid,
   side |-> IF side = "buy" THEN 0 ELSE 1,
   price |-> to_base_units(p, PriceScale),
   size |-> to_base_units(size, 1),
   expiration |-> now + ttl_seconds,
   salt |-> salt,
   feeRateBps |-> 0,
   maker |-> mk,
   chainId |-> CHAIN_ID]

\* build_order_body at time now with salt uuid4().hex
build_order_body(mk, tid, side, p, size, ttl_seconds, now, salt) ==
  [token_id |-> tid,
   side |-> IF side = "buy" THEN 0 ELSE 1,
   price |-> to_base_units(p, PriceScale),
   size |-> to_base_units(size, 1),
   expiration |-> now + ttl_seconds,
   salt |-> salt,
   feeRateBps |-> 0,
   maker |-> mk,
   chainId |-> CHAIN_ID]

\* ttl_seconds or DEFAULT_TTL
EffectiveTtl(a) == OrInt(a.ttl_seconds, DEFAULT_TTL)

BuildOrder ==
  /\ pc = "build"
  /\ Enter("build")
  /\ \E now \in Times, salt \in Salts :
       order_body' = build_order_body(maker, token_id, args.side, price,
                                      args.size, EffectiveTtl(args), now, salt)
  /\ pc' = "sign"
  /\ UNCHANGED <<parked, caller, reply, env, args, err, reqs, posted, warnings, maker, market, token_id,
                 outcomes, tokens, market_id_for_book, next_cursor, cursors, passed_over, alt, bids,
                 asks, price, signature, result>>

\* ---------------------------------------------------------------- signer

\* the typed-data message sign_order builds from the order body
TypedMessage(body) ==
  [maker |-> body.maker,
   taker |-> "0x0000000000000000000000000000000000000000",
   tokenId |-> IntTable[body.token_id],
   price |-> ParseInt(body.price),
   amount |-> ParseInt(body.size),
   expiration |-> body.expiration,
   salt |-> body.salt,
   side |-> body.side,
   feeRateBps |-> body.feeRateBps]

\* int(order_body["token_id"]) raises on a token id that is not a decimal
SignRaises(body) == ~IsDecimal(body.token_id)

\* the signature: which key signed which message under which domain
sign_order(body, private_key, domain_name, domain_version, verifier) ==
  [signer |-> AddressTable[private_key],
   domain |-> [name |-> domain_name, version |-> domain_version,
               chainId |-> CHAIN_ID, verifyingContract |-> verifier],
   message |-> TypedMessage(body)]

SignOrder ==
  /\ pc = "sign"
  /\ Enter("sign")
  /\ IF SignRaises(order_body)
       THEN Raise("sign", "signing failed") /\ UNCHANGED signature
       ELSE /\ signature' = sign_order(order_body, env.pk, env.name,
                                       env.version, env.verifier)
            /\ pc' = "submit"
            /\ UNCHANGED err
  /\ UNCHANGED <<parked, caller, reply, env, args, reqs, posted, warnings, maker, market, token_id, outcomes,
                 tokens, market_id_for_book, next_cursor, cursors, passed_over, alt, bids, asks,
                 price, order_body, result>>

\* ------------------------------------------------------------- submitter

\* mutant: the order body is posted without its signature
Payload_Unsigned(body, sig) == body

\* payload = {**order_body, "signature": signature}
Payload(body, sig) == [signature |-> sig] @@ body

\* mutant: the dry_run flag is ignored and every order is posted
PostsOrder_Always(dry_run) == TRUE

\* a live submission is posted: not dry_run
PostsOrder(dry_run) == ~dry_run

\* mutant: the venue's status is not checked
SubmitFailed_Never(kind) == FALSE

\* the live submission failed: not resp.ok
SubmitFailed(kind) == kind # "ok"

\* the dict execute_order returns
ExecutionResult(response) ==
  [maker |-> maker, marketId |-> args.market_id, tokenId |-> token_id,
   outcomeIndex |-> args.outcome_index, side |-> args.side, size |-> args.size,
   limitPrice |-> args.limit_price, usedPrice |-> price, outcomes |-> outcomes,
   orderBody |-> order_body, signature |-> signature, response |-> response]

Simulated(payload) == [dryRun |-> TRUE, payload |-> payload]

\* submit_order, and the return of execute_order
SubmitOrder ==
  /\ pc = "submit"
  /\ Enter("submit")
  /\ LET payload == Payload(order_body, signature)
     IN  IF ~PostsOrder(args.dry_run)
           THEN /\ result' = ExecutionResult(Simulated(payload))
                /\ pc' = "done"
                /\ UNCHANGED <<err, reqs, posted>>
           ELSE \E kind \in Kinds :
                  /\ Issue("submit", order_body.token_id, kind, EmptyBook)
                  /\ posted' = Append(posted, payload)
                  /\ IF kind = "exc"
                       THEN Raise("submit", Transport) /\ UNCHANGED result
                     ELSE IF SubmitFailed(kind)
                       THEN /\ Raise("submit", "Order submit failed")
                            /\ UNCHANGED result
                     ELSE /\ result' = ExecutionResult(VenueAck)
                          /\ pc' = "done"
                          /\ UNCHANGED err
  /\ UNCHANGED <<parked, caller, reply, env, args, warnings, maker, market, token_id, outcomes, tokens,
                 market_id_for_book, next_cursor, cursors, passed_over, alt, bids, asks, price,
                 order_body, signature>>

\* ------------------------------------------------------- specification

Next ==
  \/ CheckConfig
  \/ SafetyPolicy
  \/ DeriveMaker
  \/ UseProvidedToken
  \/ PointLookup
  \/ FetchPage
  \/ FetchPrimaryBook
  \/ FetchAlternateBook
  \/ PickPrice
  \/ BuildOrder
  \/ SignOrder
  \/ SubmitOrder

Spec == Init /\ [][Next]_vars

\* ------------------------------------------ two invocations, interleaved

\* the locals of the running invocation: everything execute_order and its
\* callees hold, which is all of the state but the process environment
Locals ==
  [args |-> args, pc |-> pc, stages |-> stages, err |-> err, reqs |-> reqs,
   posted |-> posted, warnings |-> warnings, maker |-> maker, market |-> market,
   token_id |-> token_id, outcomes |-> outcomes, tokens |-> tokens,
   market_id_for_book |-> market_id_for_book, next_cursor |-> next_cursor,
   cursors |-> cursors, passed_over |-> passed_over, alt |-> alt, bids |-> bids, asks |-> asks,
   price |-> price, order_body |-> order_body, signature |-> signature,
   result |-> result]

\* the locals of an invocation that has been called and has not run yet
Called(a) ==
  [args |-> a, pc |-> "config", stages |-> <<>>, err |-> NoErr, reqs |-> <<>>,
   posted |-> <<>>, warnings |-> <<>>, maker |-> NoneStr, market |-> NoMarket,
   token_id |-> a.token_id, outcomes |-> <<>>, tokens |-> <<>>,
   market_id_for_book |-> NoneStr, next_cursor |-> "", cursors |-> <<>>, passed_over |-> {},
   alt |-> 0, bids |-> <<>>, asks |-> <<>>, price |-> NoPrice,
   order_body |-> NoBody, signature |-> NoSig, result |-> NoResult]

\* mutant: next_cursor is module-level state, so a resumed invocation finds
\* the cursor the other invocation left
Resumed_SharedCursor(frame) == [frame EXCEPT !.next_cursor = next_cursor]

\* what a suspended invocation finds when it runs again: its own locals, as
\* it left them (no name of the module is assigned outside a function body)
Resumed(frame) == frame

\* the scheduler suspends the running invocation and resumes the other one
Switch ==
  /\ parked # NoFrame
  /\ LET f == Resumed(parked)
     IN  /\ args' = f.args
         /\ pc' = f.pc
         /\ stages' = f.stages
         /\ err' = f.err
         /\ reqs' = f.reqs
         /\ posted' = f.posted
         /\ warnings' = f.warnings
         /\ maker' = f.maker
         /\ market' = f.market
         /\ token_id' = f.token_id
         /\ outcomes' = f.outcomes
         /\ tokens' = f.tokens
         /\ market_id_for_book' = f.market_id_for_book
         /\ next_cursor' = f.next_cursor
         /\ cursors' = f.cursors
         /\ passed_over' = f.passed_over
         /\ alt' = f.alt
         /\ bids' = f.bids
         /\ asks' = f.asks
         /\ price' = f.price
         /\ order_body' = f.order_body
         /\ signature' = f.signature
         /\ result' = f.result
  /\ parked' = Locals
  /\ UNCHANGED <<env, caller, reply>>

\* a live order resolved through the venue, and a dry run on a supplied token
PairCalls ==
  {<<Args(1, "buy", 1, 6060, NoInt, NoInt, FALSE, NoneStr),
     Args(0, "sell", 1, 5940, NoInt, Some(50), TRUE, "12")>>}

\* two calls in one process: the first is running, the second is suspended
InitPair ==
  \E e \in CompleteEnvs, c \in PairCalls :
    /\ env = e
    /\ args = Called(c[1]).args
    /\ pc = Called(c[1]).pc
    /\ stages = Called(c[1]).stages
    /\ err = Called(c[1]).err
    /\ reqs = Called(c[1]).reqs
    /\ posted = Called(c[1]).posted
    /\ warnings = Called(c[1]).warnings
    /\ maker = Called(c[1]).maker
    /\ market = Called(c[1]).market
    /\ token_id = Called(c[1]).token_id
    /\ outcomes = Called(c[1]).outcomes
    /\ tokens = Called(c[1]).tokens
    /\ market_id_for_book = Called(c[1]).market_id_for_book
    /\ next_cursor = Called(c[1]).next_cursor
    /\ cursors = Called(c[1]).cursors
    /\ passed_over = Called(c[1]).passed_over
    /\ alt = Called(c[1]).alt
    /\ bids = Called(c[1]).bids
    /\ asks = Called(c[1]).asks
    /\ price = Called(c[1]).price
    /\ order_body = Called(c[1]).order_body
    /\ signature = Called(c[1]).signature
    /\ result = Called(c[1]).result
    /\ parked = Called(c[2])
    /\ caller = NoCaller
    /\ reply = NoReply

NextPair == Next \/ Switch

SpecPair == InitPair /\ [][NextPair]_vars

\* ------------------------------------------------ the conversion alone

\* the seven-decimal amounts 1 / FineScale .. MaxFine / FineScale
MaxFine == 60

\* an amount n / d
Amount(n, d) == [n |-> n, d |-> d]

\* whole sizes, four-decimal prices, and seven-decimal prices and sizes with
\* the ties (last digit 5) among them
Amounts ==
  {Amount(n, 1) : n \in Sizes \cup {2, 2000}}
    \cup {Amount(n, PriceScale) : n \in LimitPrices \cup {1, 9999}}
    \cup {Amount(n, FineScale) : n \in 1..MaxFine}
    \cup {Amount(n, FineScale) :
            n \in {1255, 1265, 4999995, 5000005, 6060005, 9999995, 9999999}}
    \cup {Amount(n, FineScale) : n \in {10000005, 15000005, 25000015}}

\* a call to_base_units(amount), about to run
InitUnits ==
  \E a \in Amounts :
    /\ env = Env(NoneStr, NoneStr, NoneStr, NoneStr, NoneStr, FALSE)
    /\ args = [amount |-> a]
    /\ pc = "to_base_units"
    /\ stages = <<>>
    /\ err = NoErr
    /\ reqs = <<>>
    /\ posted = <<>>
    /\ warnings = <<>>
    /\ maker = NoneStr
    /\ market = NoMarket
    /\ token_id = NoneStr
    /\ outcomes = <<>>
    /\ tokens = <<>>
    /\ market_id_for_book = NoneStr
    /\ next_cursor = ""
    /\ cursors = <<>>
    /\ passed_over = {}
    /\ alt = 0
    /\ bids = <<>>
    /\ asks = <<>>
    /\ price = NoPrice
    /\ order_body = NoBody
    /\ signature = NoSig
    /\ result = NoResult
    /\ parked = NoFrame
    /\ caller = NoCaller
    /\ reply = NoReply

\* return str(int(round(amount * 1_000_000)))
Convert ==
  /\ pc = "to_base_units"
  /\ result' = to_base_units(args.amount.n, args.amount.d)
  /\ pc' = "returned"
  /\ UNCHANGED <<parked, caller, reply, env, args, stages, err, reqs, posted, warnings, maker, market,
                 token_id, outcomes, tokens, market_id_for_book, next_cursor,
                 cursors, passed_over, alt, bids, asks, price, order_body, signature>>

NextUnits == Convert

SpecUnits == InitUnits /\ [][NextUnits]_vars

\* -------------------------------------------------------- entry points

\* ExecuteOrderRequest.dryRun: Optional[bool], None when the body omits it
DryRunFields == {NoInt, Some(TRUE), Some(FALSE)}

\* a request body of POST /execute-order
ExecuteOrderRequest(dryRun, tokenId) ==
  [via |-> "endpoint", marketId |-> "0xAB", outcomeIndex |-> 0, side |-> "buy",
   size |-> 1, limitPrice |-> 6060, ttlSeconds |-> NoInt,
   maxSlippageBps |-> NoInt, dryRun |-> dryRun, tokenId |-> tokenId]

\* a command line of the test script: argparse's namespace
ScriptArgs(dryRun) ==
  [via |-> "script", marketId |-> "0xAB", outcomeIndex |-> 0, side |-> "buy",
   size |-> 1, limitPrice |-> 5000, dryRun |-> dryRun]

Callers ==
  {ExecuteOrderRequest(d, t) : d \in DryRunFields, t \in {NoneStr, "12"}}
    \cup {ScriptArgs(d) : d \in BOOLEAN}

NoArgs == [market_id |-> NoneStr]

\* mutant: an omitted dryRun is taken as false (bool(req.dryRun))
EndpointDryRun_Falsy(dryRun) == dryRun = Some(TRUE)

\* req.dryRun if req.dryRun is not None else True
EndpointDryRun(dryRun) == IF dryRun # NoInt THEN dryRun[1] ELSE TRUE

\* args.dryRun or True
ScriptDryRun(dryRun) == dryRun \/ TRUE

\* the endpoint or the script has been entered, execute_order not yet called
InitEntry ==
  \E c \in Callers, e \in CompleteEnvs :
    /\ caller = c
    /\ reply = NoReply
    /\ env = e
    /\ args = NoArgs
    /\ pc = "entry"
    /\ stages = <<>>
    /\ err = NoErr
    /\ reqs = <<>>
    /\ posted = <<>>
    /\ warnings = <<>>
    /\ maker = NoneStr
    /\ market = NoMarket
    /\ token_id = NoneStr
    /\ outcomes = <<>>
    /\ tokens = <<>>
    /\ market_id_for_book = NoneStr
    /\ next_cursor = ""
    /\ cursors = <<>>
    /\ passed_over = {}
    /\ alt = 0
    /\ bids = <<>>
    /\ asks = <<>>
    /\ price = NoPrice
    /\ order_body = NoBody
    /\ signature = NoSig
    /\ result = NoResult
    /\ parked = NoFrame

\* what a call of execute_order leaves untouched when it is entered
EntryFrame ==
  UNCHANGED <<env, stages, err, reqs, posted, warnings, maker, market, outcomes,
              tokens, market_id_for_book, next_cursor, cursors, passed_over, alt,
              bids, asks, price, order_body, signature, result, parked, caller,
              reply>>

\* execute_order_endpoint calls execute_order with the request's fields
EndpointCalls ==
  /\ pc = "entry"
  /\ caller.via = "endpoint"
  /\ args' = Args(caller.outcomeIndex, caller.side, caller.size,
                  caller.limitPrice, caller.ttlSeconds, caller.maxSlippageBps,
                  EndpointDryRun(caller.dryRun), caller.tokenId)
  /\ token_id' = caller.tokenId
  /\ pc' = "config"
  /\ EntryFrame

\* main() of the test script calls execute_order; ttl, slippage and token
\* take execute_order's defaults
ScriptCalls ==
  /\ pc = "entry"
  /\ caller.via = "script"
  /\ args' = Args(caller.outcomeIndex, caller.side, caller.size,
                  caller.limitPrice, NoInt, NoInt, ScriptDryRun(caller.dryRun),
                  NoneStr)
  /\ token_id' = NoneStr
  /\ pc' = "config"
  /\ EntryFrame

\* what the endpoint's return or except clause, or the script's end, leaves
ReplyFrame ==
  UNCHANGED <<env, args, pc, stages, err, reqs, posted, warnings, maker, market,
              token_id, outcomes, tokens, market_id_for_book, next_cursor,
              cursors, passed_over, alt, bids, asks, price, order_body,
              signature, result, parked, caller>>

\* return result: the endpoint answers 200 with execute_order's dict
EndpointReturns ==
  /\ caller.via = "endpoint"
  /\ reply = NoReply
  /\ pc = "done"
  /\ reply' = [status |-> 200, body |-> result]
  /\ ReplyFrame

\* except Exception as e: raise HTTPException(status_code=400, detail=str(e))
EndpointRaises ==
  /\ caller.via = "endpoint"
  /\ reply = NoReply
  /\ pc = "failed"
  /\ reply' = [status |-> 400, detail |-> err.kind]
  /\ ReplyFrame

\* the script prints the result, or ends with the exception uncaught
ScriptEnds ==
  /\ caller.via = "script"
  /\ reply = NoReply
  /\ pc \in {"done", "failed"}
  /\ reply' = IF pc = "done" THEN [status |-> 1, printed |-> result]
                             ELSE [status |-> 2, raised |-> err.kind]
  /\ ReplyFrame

NextEntry ==
  \/ Next
  \/ EndpointCalls
  \/ ScriptCalls
  \/ EndpointReturns
  \/ EndpointRaises
  \/ ScriptEnds

SpecEntry == InitEntry /\ [][NextEntry]_vars

\* ------------------------------------------------- LLM chat retry helper

\* attempts: int = 3
ATTEMPTS_DEFAULT == 3

\* delay_seconds: float = 1.5, in tenths of a second
DELAY_DEFAULT == 15

MaxAttempts == 3

\* a parameter with a default: the default applies when it is omitted
Defaulted(v, d) == IF v = NoInt THEN d ELSE v[1]

\* a text is a sequence of characters
IsSpace(ch) == ch \in {" ", "\n", "\t"}

RECURSIVE LStrip(_)
LStrip(text) ==
  IF text # <<>> /\ IsSpace(text[1]) THEN LStrip(Tail(text)) ELSE text

RECURSIVE RStrip(_)
RStrip(text) ==
  IF text # <<>> /\ IsSpace(text[Len(text)])
    THEN RStrip(SubSeq(text, 1, Len(text) - 1))
    ELSE text

\* str.strip()
Strip(text) == RStrip(LStrip(text))

Contents == {<<"y">>, <<" ", "y", "\n">>, <<" ">>}

\* client.chat.completions.create raises, or returns a response whose
\* message content is a text or None
ChatResponses ==
  [kind : {"exc"}, content : {NoInt}]
    \cup [kind : {"ok"}, content : {NoInt} \cup {Some(c) : c \in Contents}]

ChatCalls ==
  [attempts : {NoInt} \cup {Some(n) : n \in 0..MaxAttempts},
   delay_seconds : {NoInt, Some(0)},
   api_key : {NoneStr, "sk-1"}]

\* _chat_with_retry has been called
InitChat ==
  \E c \in ChatCalls :
    /\ env = [OPENAI_API_KEY |-> c.api_key]
    /\ args = [attempts |-> Defaulted(c.attempts, ATTEMPTS_DEFAULT),
               delay_seconds |-> Defaulted(c.delay_seconds, DELAY_DEFAULT)]
    /\ pc = "client"
    /\ stages = <<>>
    /\ err = NoErr
    /\ reqs = <<>>
    /\ posted = <<>>
    /\ warnings = <<>>
    /\ maker = NoneStr
    /\ market = NoMarket
    /\ token_id = NoneStr
    /\ outcomes = <<>>
    /\ tokens = <<>>
    /\ market_id_for_book = NoneStr
    /\ next_cursor = ""
    /\ cursors = <<>>
    /\ passed_over = {}
    /\ alt = 0
    /\ bids = <<>>
    /\ asks = <<>>
    /\ price = NoPrice
    /\ order_body = NoBody
    /\ signature = NoSig
    /\ result = NoResult
    /\ parked = NoFrame
    /\ caller = NoCaller
    /\ reply = NoReply

\* what the helper leaves untouched
ChatFrame ==
  UNCHANGED <<env, args, stages, posted, warnings, maker, market, token_id,
              outcomes, tokens, market_id_for_book, next_cursor, cursors,
              passed_over, alt, bids, asks, price, order_body, signature, parked,
              caller, reply>>

\* client = get_openai_client(), outside the try: a missing key raises
GetClient ==
  /\ pc = "client"
  /\ IF ~Truthy(env.OPENAI_API_KEY)
       THEN Raise("client", "OPENAI_API_KEY environment variable not set")
       ELSE pc' = "attempt" /\ UNCHANGED err
  /\ UNCHANGED <<reqs, result>>
  /\ ChatFrame

\* the loop variable: the attempts made so far, plus one
Attempt == Count("chat") + 1

ChatCall(attempt, r) ==
  [ep |-> "chat", arg |-> attempt, kind |-> r.kind, content |-> r.content]

Sleep(tenths) == [ep |-> "sleep", arg |-> tenths, kind |-> "ok"]

\* the try body ends without an exception: the call returned and its
\* content is a text (None has no strip)
TryBodyReturns(r) == r.kind = "ok" /\ r.content # NoInt

\* mutant: the helper sleeps after the last attempt too
SleepsAfter_Always(attempt, attempts) == TRUE

\* if attempt < attempts: time.sleep(delay_seconds * attempt)
SleepsAfter(attempt, attempts) == attempt < attempts

\* one iteration of for attempt in range(1, attempts + 1)
ChatAttempt ==
  /\ pc = "attempt"
  /\ Attempt <= args.attempts
  /\ \E r \in ChatResponses :
       IF TryBodyReturns(r)
         THEN /\ reqs' = Append(reqs, ChatCall(Attempt, r))
              /\ result' = [returned |-> Some(Strip(r.content[1]))]
              /\ pc' = "returned"
         ELSE /\ reqs' =
                   IF SleepsAfter(Attempt, args.attempts)
                     THEN reqs \o <<ChatCall(Attempt, r),
                                    Sleep(args.delay_seconds * Attempt)>>
                     ELSE Append(reqs, ChatCall(Attempt, r))
              /\ UNCHANGED <<pc, result>>
  /\ UNCHANGED err
  /\ ChatFrame

\* the loop is over: return None
GiveUp ==
  /\ pc = "attempt"
  /\ Attempt > args.attempts
  /\ result' = [returned |-> NoInt]
  /\ pc' = "returned"
  /\ UNCHANGED <<err, reqs>>
  /\ ChatFrame

NextChat == GetClient \/ ChatAttempt \/ GiveUp

SpecChat == InitChat /\ [][NextChat]_vars

\* ----------------------------------------------------- properties: tools

StageOrder == <<"config", "policy", "account", "resolver", "book", "price",
                "build", "sign", "submit">>

Rank(stage) == CHOOSE i \in 1..Len(StageOrder) : StageOrder[i] = stage

Started(stage) == \E i \in 1..Len(stages) : stages[i] = stage

Failed == pc = "failed"

FailedAt(stage) == Failed /\ err.stage = stage

\* the requests to one endpoint, in order
Requests(ep) == SelectSeq(reqs, LAMBDA r : r.ep = ep)

Absent(v) == v = NoneStr \/ v = ""

ConfigComplete ==
  ~(Absent(env.rpc) \/ Absent(env.pk) \/ Absent(env.name)
      \/ Absent(env.version) \/ Absent(env.verifier))

\* ------------------------------------------------------------------ C1

\* C1: with a complete configuration, a call whose size * limitPrice (the
\* requested limit price) is strictly greater than the maximum order notional
\* fails at the safety policy with no network request issued; a notional equal
\* to the cap is not rejected by the safety policy.
C1_NotionalCapBeforeNetwork ==
  (ConfigComplete /\ Started("policy") /\ pc # "policy") =>
    LET notional == args.size * args.limit_price
        cap == DEFAULT_MAX_ORDER_USDC * PriceScale
    IN  /\ notional > cap =>
             /\ FailedAt("policy")
             /\ reqs = <<>>
             /\ posted = <<>>
             /\ stages = <<"config", "policy">>
        /\ notional <= cap => err.stage # "policy"

C1_Witness ==
  /\ ConfigComplete
  /\ args.size = 1000 /\ args.limit_price = 5001
  /\ FailedAt("policy")
  /\ reqs = <<>>

\* ------------------------------------------------------------------ C2

\* C2: with dryRun = true no request to the order-submission endpoint is ever
\* issued, and the returned response is marked simulated with a payload equal
\* to the built order body plus the signature the signer produced.
C2_DryRunNeverSubmits ==
  args.dry_run =>
    /\ Requests("submit") = <<>>
    /\ posted = <<>>
    /\ pc = "done" =>
         /\ result.response.dryRun = TRUE
         /\ signature # NoSig
         /\ result.signature = signature
         /\ result.orderBody = order_body
         /\ DOMAIN result.response.payload = DOMAIN order_body \cup {"signature"}
         /\ \A f \in DOMAIN order_body : result.response.payload[f] = order_body[f]
         /\ result.response.payload.signature = signature

C2_Witness ==
  /\ args.dry_run
  /\ pc = "done"
  /\ result.response.dryRun = TRUE
  /\ result.response.payload.signature = signature

\* ------------------------------------------------------------------ C3

\* what a call that failed at a stage has not produced
C3_NothingLater ==
  err # NoErr =>
    /\ Failed
    /\ result = NoResult
    /\ stages = SubSeq(StageOrder, 1, Rank(err.stage))
    /\ Rank(err.stage) <= Rank("account") => reqs = <<>>
    /\ Rank(err.stage) <= Rank("resolver") => Requests("book") = <<>>
    /\ Rank(err.stage) <= Rank("book") => price = NoPrice
    /\ Rank(err.stage) <= Rank("price") => order_body = NoBody
    /\ Rank(err.stage) <= Rank("sign") =>
         /\ signature = NoSig
         /\ posted = <<>>
         /\ Requests("submit") = <<>>

\* the book client ended without a 2xx book and without the dry-run opt-in
C3_BookClientFailed ==
  /\ Started("book")
  /\ pc \notin {"book", "alt"}
  /\ Requests("book")[Len(Requests("book"))].kind # "ok"
  /\ ~(args.dry_run /\ env.allow)

\* what a call that returned a result has done
C3_ResultIsComplete ==
  result # NoResult =>
    /\ pc = "done"
    /\ err = NoErr
    /\ stages = StageOrder
    /\ order_body # NoBody
    /\ signature # NoSig
    /\ result.orderBody = order_body
    /\ result.signature = signature
    /\ IF args.dry_run
         THEN posted = <<>> /\ result.response.dryRun = TRUE
         ELSE /\ Len(posted) = 1
              /\ posted[1].signature = signature
              /\ Len(Requests("submit")) = 1
              /\ reqs[Len(reqs)].ep = "submit"
              /\ reqs[Len(reqs)].kind = "ok"

\* C3: no partial success. A stage that fails aborts the pipeline there: no
\* later stage starts, nothing later is built, signed or submitted, no result
\* is returned, and nothing changes afterwards; a result is returned only when
\* the order was built, signed and submitted (2xx) or simulated.
C3_NoPartialSuccess ==
  /\ [](C3_NothingLater /\ C3_ResultIsComplete)
  /\ [](C3_BookClientFailed => FailedAt("book"))
  /\ [][Failed => UNCHANGED vars]_vars

C3_Witness ==
  /\ FailedAt("price")
  /\ Requests("book") # <<>>
  /\ order_body = NoBody
  /\ signature = NoSig

\* ------------------------------------------------------------------ C4

\* C4: if the RPC endpoint, the signing credential, the domain name, the
\* domain version or the verifying contract is absent, execute_order fails at
\* the precondition check: no later stage starts, no network request is
\* issued, no order body is built and nothing is signed.
C4_MissingConfigFailsFirst ==
  (~ConfigComplete /\ pc # "config") =>
    /\ FailedAt("config")
    /\ stages = <<"config">>
    /\ reqs = <<>>
    /\ posted = <<>>
    /\ order_body = NoBody
    /\ signature = NoSig
    /\ result = NoResult

C4_Witness ==
  /\ FailedAt("config")
  /\ ~Absent(env.rpc) /\ ~Absent(env.pk) /\ ~Absent(env.name)
  /\ ~Absent(env.version) /\ Absent(env.verifier)
  /\ reqs = <<>>

\* ------------------------------------------------------------------ C5

\* the limit price is outside the bound of the book's best price
C5_OutsideBound(bps) ==
  \/ /\ args.side = "buy" /\ asks # <<>>
     /\ args.limit_price * BPS > asks[1][1] * (BPS + bps)
  \/ /\ args.side = "sell" /\ bids # <<>>
     /\ args.limit_price * BPS < bids[1][1] * (BPS - bps)

\* C5: once the price selector has run with slippage bound bps, it has failed
\* exactly when a buy's limit price is strictly above bestAsk * (1 + bps/10000)
\* or a sell's strictly below bestBid * (1 - bps/10000), the relevant side
\* being non-empty; so a signed order's price is within the bound.
C5_SlippageGuard ==
  (Started("price") /\ pc # "price") =>
    LET bps == EffectiveSlippage(args)
    IN  /\ FailedAt("price") <=> C5_OutsideBound(bps)
        /\ signature # NoSig =>
             /\ ~C5_OutsideBound(bps)
             /\ price = args.limit_price
             /\ (args.side = "buy" /\ asks # <<>>) =>
                  price * BPS <= asks[1][1] * (BPS + bps)
             /\ (args.side = "sell" /\ bids # <<>>) =>
                  price * BPS >= bids[1][1] * (BPS - bps)

C5_Witness ==
  /\ FailedAt("price")
  /\ args.side = "sell"
  /\ bids # <<>>
  /\ args.limit_price = 5940
  /\ bids[1][1] = 6001

\* ------------------------------------------------------------------ C6

\* C6: whenever the requested side is not buy or sell, or the requested size
\* is not positive, execute_order fails with a validation error and no order
\* is built, signed or submitted.
C6_InvalidSideOrSizeRejected ==
  (args.side \notin {"buy", "sell"} \/ args.size <= 0) =>
    /\ order_body = NoBody
    /\ signature = NoSig
    /\ posted = <<>>
    /\ result = NoResult

\* ------------------------------------------------------------------ C7

\* C7: when the resolved market has no tokens, or outcomeIndex is outside
\* [0, len(tokens)), resolution fails, and no book fetch, signing or
\* submission request has been made.
C7_BadOutcomeIndexFailsResolution ==
  (market # NoMarket
     /\ (market.tokens = <<>>
           \/ args.outcome_index < 0
           \/ args.outcome_index >= Len(market.tokens))) =>
    /\ FailedAt("resolver")
    /\ err.kind \in {"No tokens in CLOB market response",
                     "Outcome index out of range"}
    /\ Requests("book") = <<>>
    /\ Requests("submit") = <<>>
    /\ order_body = NoBody
    /\ signature = NoSig
    /\ posted = <<>>

C7_Witness ==
  /\ market = MktYesNo
  /\ args.outcome_index = 2
  /\ FailedAt("resolver")
  /\ Requests("book") = <<>>

\* ------------------------------------------------------------------ C8

\* the book client is over and no book fetch returned 2xx
C8_NoBookFetched ==
  /\ Started("book")
  /\ pc \notin {"book", "alt"}
  /\ \A i \in 1..Len(reqs) : reqs[i].ep = "book" => reqs[i].kind # "ok"

\* every candidate was asked and answered non-2xx
C8_AllRefused ==
  /\ C8_NoBookFetched
  /\ \A i \in 1..Len(reqs) : reqs[i].ep = "book" => reqs[i].kind = "fail"

\* C8: if no book was fetched from the primary token nor from any sibling,
\* execute_order fails at the book client (with the no-orderbook error when
\* every candidate answered non-2xx), except when the call is dry-run and
\* ALLOW_MISSING_BOOK is set: then the pipeline continues with bids = [],
\* asks = []. One of the two conditions alone does not prevent the failure.
C8_MissingBookFailsUnlessDryRunOptIn ==
  C8_NoBookFetched =>
    IF args.dry_run /\ env.allow
      THEN /\ err.stage # "book"
           /\ Started("price") \/ pc = "price"
           /\ bids = <<>>
           /\ asks = <<>>
      ELSE /\ FailedAt("book")
           /\ C8_AllRefused => err.kind = NoBook
           /\ order_body = NoBody
           /\ Requests("submit") = <<>>

C8_Witness ==
  /\ C8_AllRefused
  /\ Len(Requests("book")) = 3
  /\ args.dry_run /\ env.allow
  /\ pc = "done"
  /\ bids = <<>> /\ asks = <<>>

\* ------------------------------------------------------------------ C9

\* the tokens other than the primary that carry a token id, in list order
C9_Siblings ==
  SelectSeq(tokens, LAMBDA t : t.token_id \notin {NoneStr, "", token_id})

C9_BookDone == Started("book") /\ pc \notin {"book", "alt"}

\* the book requests after the primary's go to the siblings in list order
C9_InListOrder(B) ==
  /\ Len(B) <= 1 + Len(C9_Siblings)
  /\ \A k \in 2..Len(B) : B[k].arg = C9_Siblings[k - 1].token_id

\* C9 as stated: if the primary fetch did not succeed, by a non-2xx response
\* or by a transport failure, and a sibling list was supplied, the siblings
\* are tried in list order up to the first whose fetch succeeds, whose book
\* is returned.
C9_FallbackOnAnyFailure ==
  LET B == Requests("book")
  IN  (C9_BookDone /\ tokens # <<>> /\ B[1].kind \in {"fail", "exc"}) =>
        /\ C9_InListOrder(B)
        /\ \/ Len(B) = 1 + Len(C9_Siblings)
           \/ B[Len(B)].kind = "ok"
        /\ B[Len(B)].kind = "ok" =>
             bids = B[Len(B)].book.bids /\ asks = B[Len(B)].book.asks

\* C9 amended: if the primary fetch returned a non-2xx response and a sibling
\* list was supplied, the siblings are tried in list order, each after the
\* previous candidate answered non-2xx, up to the first that answers 2xx,
\* whose book is returned. A fetch that raises a transport failure ends
\* get_orderbook with that failure: no further sibling is tried.
C9_FallbackOnNon2xx ==
  LET B == Requests("book")
  IN  (Started("book") /\ pc # "book" /\ tokens # <<>>) =>
        /\ C9_InListOrder(B)
        /\ \A k \in 2..Len(B) : B[k - 1].kind = "fail"
        /\ C9_BookDone =>
             /\ B[Len(B)].kind = "fail" => Len(B) = 1 + Len(C9_Siblings)
             /\ B[Len(B)].kind = "ok" =>
                  bids = B[Len(B)].book.bids /\ asks = B[Len(B)].book.asks
             /\ B[Len(B)].kind = "exc" =>
                  \/ FailedAt("book") /\ err.kind = Transport
                  \/ args.dry_run /\ env.allow /\ bids = <<>> /\ asks = <<>>

C9_Witness ==
  LET B == Requests("book")
  IN  /\ pc = "price"
      /\ Len(tokens) = 3
      /\ args.outcome_index = 1
      /\ Len(B) = 3
      /\ B[1].kind = "fail" /\ B[2].kind = "fail" /\ B[3].kind = "ok"
      /\ B[2].arg = "11" /\ B[3].arg = "13"
      /\ asks = B[3].book.asks /\ asks # <<>>

\* ----------------------------------------------------------------- C10

\* a book was returned by get_orderbook, from the request that came last
C10_BookReturned ==
  /\ Started("book")
  /\ pc \notin {"book", "alt"}
  /\ Requests("book")[Len(Requests("book"))].kind = "ok"

\* C10: when get_orderbook returns a sibling token's book whose index differs
\* from the desired outcome index, the degraded-match warning for that index
\* has been printed by the time the book is returned; when the primary
\* token's book is returned, or none, no warning is printed.
C10_DegradedMatchWarned ==
  /\ (C10_BookReturned /\ Len(Requests("book")) > 1 /\ alt # args.outcome_index)
       => warnings = <<alt>>
  /\ (C10_BookReturned /\ Len(Requests("book")) = 1) => warnings = <<>>
  /\ ~C10_BookReturned => warnings = <<>>

C10_Witness ==
  /\ C10_BookReturned
  /\ pc = "price"
  /\ Len(Requests("book")) = 2
  /\ args.outcome_index = 0
  /\ warnings = <<1>>

\* ----------------------------------------------------------------- C11

\* a market's identifier field k is present and equals the requested id,
\* letter case aside
C11_SameId(k, requested) == k # NoneStr /\ Lower(k) = Lower(requested)

C11_ScanEnded ==
  cursors # <<>> /\ cursors[Len(cursors)] \in {"", "LTE="}

\* C11: the resolver returns a market only if the requested marketId equals,
\* case-insensitively, that market's condition_id, id or question_id, whether
\* the point lookup or the paginated scan returned it; and when the listing
\* ends with no market matching, the resolver fails with a not-found error
\* and returns no market.
C11_OnlyMatchingMarketReturned ==
  /\ market # NoMarket =>
       \E k \in {market.condition_id, market.id, market.question_id} :
         C11_SameId(k, args.market_id)
  /\ C11_ScanEnded =>
       /\ market = NoMarket
       /\ FailedAt("resolver")
       /\ err.kind = "No CLOB market found"

\* ----------------------------------------------------------------- C12

\* page i of the listing was read without a match and is the listing's last:
\* its next-cursor is empty or the sentinel
C12_LastPage(i) == cursors[i] \in {"", "LTE="}

\* C12: pagination terminates: when page N of a listing in which no market
\* matches carries an empty next-cursor or the sentinel "LTE=", the resolver
\* has fetched exactly the N pages up to it, each with the cursor the page
\* before returned, issues no request after it, and fails with not-found.
C12_PaginationTerminates ==
  \A n \in 1..Len(cursors) :
    C12_LastPage(n) =>
      /\ n = Len(cursors)
      /\ Len(Requests("page")) = n
      /\ \A i \in 1..n :
           Requests("page")[i].arg = (IF i = 1 THEN "" ELSE cursors[i - 1])
      /\ reqs[Len(reqs)].ep = "page"
      /\ FailedAt("resolver")
      /\ err.kind = "No CLOB market found"

\* a two-page listing without a match, ended by the sentinel
C12_Witness ==
  /\ Len(cursors) = 2
  /\ ~C12_LastPage(1)
  /\ cursors[2] = "LTE="
  /\ Len(Requests("page")) = 2
  /\ FailedAt("resolver")

\* ----------------------------------------------------------------- C13

\* the stage a network call belongs to
C13_StageOf(ep) ==
  CASE ep \in {"lookup", "page"} -> "resolver"
    [] ep = "book" -> "book"
    [] ep = "submit" -> "submit"

C13_Raised(i) == reqs[i].kind = "exc"

C13_Surfaced(i) ==
  /\ i = Len(reqs)
  /\ FailedAt(C13_StageOf(reqs[i].ep))
  /\ err.kind = Transport

\* C13 (as stated): a timeout or transport failure on any network call (point
\* lookup, page fetch, book fetch, submission) makes execute_order fail with
\* that stage's error; no request follows it and no value is substituted.
C13_TransportFailureSurfaces ==
  \A i \in 1..Len(reqs) : C13_Raised(i) => C13_Surfaced(i)

\* C13 (amended): a transport failure of a page fetch or of the submission,
\* and of a book fetch unless the call is a dry run with ALLOW_MISSING_BOOK
\* set, makes execute_order fail with that stage's error and is the call's
\* last request; under dry run with the opt-in the book failure is replaced by
\* the empty book and nothing is fetched after it; a transport failure of the
\* point lookup is swallowed and followed by the first page of the scan.
C13_TransportFailureSurfacesPastLookup ==
  \A i \in 1..Len(reqs) :
    C13_Raised(i) =>
      IF reqs[i].ep = "lookup"
        THEN /\ i = 1
             /\ ~FailedAt("resolver") \/ Len(reqs) > 1
             /\ Len(reqs) > 1 => reqs[2].ep = "page" /\ reqs[2].arg = ""
      ELSE IF reqs[i].ep = "book" /\ args.dry_run /\ env.allow
        THEN /\ i = Len(reqs)
             /\ ~FailedAt("book")
             /\ bids = <<>> /\ asks = <<>>
      ELSE C13_Surfaced(i)

\* the point lookup raised, the scan's first page raised, and the call failed
C13_Witness ==
  /\ Len(reqs) = 2
  /\ reqs[1].ep = "lookup" /\ C13_Raised(1)
  /\ reqs[2].ep = "page" /\ C13_Raised(2)
  /\ FailedAt("resolver")
  /\ err.kind = Transport

\* ----------------------------------------------------------------- C14

C14_LiveSubmitted == ~args.dry_run /\ Started("submit")

\* the payload is the order body with the signature added
C14_IsSignedPayload(p) ==
  /\ DOMAIN p = DOMAIN order_body \cup {"signature"}
  /\ p.signature = signature
  /\ \A f \in DOMAIN order_body : p[f] = order_body[f]

\* C14: in live mode submit_order posts the signed payload to the order
\* endpoint exactly once; on a 2xx response the venue's parsed response is
\* the result's response, and on a non-2xx response the call fails with a
\* submission error and no result is returned.
C14_LiveSubmitPostsOnce ==
  C14_LiveSubmitted =>
    /\ Len(Requests("submit")) = 1
    /\ Len(posted) = 1
    /\ C14_IsSignedPayload(posted[1])
    /\ signature # NoSig
    /\ LET kind == Requests("submit")[1].kind
       IN  /\ kind = "ok" => /\ pc = "done"
                             /\ result # NoResult
                             /\ result.response = VenueAck
           /\ kind = "fail" => /\ FailedAt("submit")
                               /\ err.kind = "Order submit failed"
                               /\ result = NoResult

\* a live order the venue refused with a non-2xx response
C14_Witness ==
  /\ C14_LiveSubmitted
  /\ Requests("submit")[1].kind = "fail"
  /\ FailedAt("submit")
  /\ Len(posted) = 1

\* ----------------------------------------------------------------- C15

\* a step of the running invocation: one the invocation takes when it runs
\* alone, and the suspended invocation's locals stay as they are
C15_OwnStep == Next /\ parked' = parked

\* a switch: each invocation gets exactly the locals it left
C15_Handover == parked' = Locals /\ Locals' = parked

C15_InFlight(f) ==
  /\ f.pc \notin {"none", "config", "done", "failed"}
  /\ f.reqs # <<>>

C16_Pipeline == <<"resolver", "book", "price", "build", "sign", "submit">>

\* the pipeline stages that have started, in the order they started
C16_Started ==
  SelectSeq(stages, LAMBDA t : \E i \in 1..Len(C16_Pipeline) : C16_Pipeline[i] = t)

\* the stage whose step the call is at, or "" before and after the pipeline
C16_Running ==
  CASE pc \in {"resolve", "scan"} -> "resolver"
    [] pc \in {"book", "alt"} -> "book"
    [] pc \in {"price", "build", "sign", "submit"} -> pc
    [] OTHER -> ""

\* the requests a stage issues
C16_Endpoints(stage) ==
  CASE stage = "resolver" -> {"lookup", "page"}
    [] stage = "book" -> {"book"}
    [] stage = "submit" -> {"submit"}
    [] OTHER -> {}

\* C16: within one invocation the stages run strictly in the order resolver,
\* book client, price selector, order builder, signer, submitter: each stage
\* starts once, only when every stage before it has started and completed
\* (its product exists and none of its requests comes later), so signing
\* never precedes the slippage check and submission never precedes signing.
C16_StagesInOrder ==
  /\ Len(C16_Started) <= Len(C16_Pipeline)
  /\ \A i \in 1..Len(C16_Started) : C16_Started[i] = C16_Pipeline[i]
  /\ \A i, j \in 1..Len(reqs) :
       \A k, l \in 1..Len(C16_Pipeline) :
         /\ reqs[i].ep \in C16_Endpoints(C16_Pipeline[k])
         /\ reqs[j].ep \in C16_Endpoints(C16_Pipeline[l])
         /\ i < j
         => k <= l
  /\ Started("book") => token_id # NoneStr
  /\ Started("build") => Started("price") /\ price # NoPrice
  /\ order_body # NoBody => Started("build") /\ price # NoPrice
  /\ signature # NoSig => Started("sign") /\ order_body # NoBody
  /\ Started("submit") => signature # NoSig
  /\ posted # <<>> => Started("submit") /\ signature # NoSig
  /\ C16_Running # "" /\ ~Started(C16_Running) =>
       \A k \in 1..Len(C16_Pipeline) :
         C16_Pipeline[k] = C16_Running => Len(C16_Started) = k - 1

\* a live order went through all six stages
C16_Witness ==
  /\ C16_Started = C16_Pipeline
  /\ pc = "done"
  /\ posted # <<>>
  /\ market # NoMarket

\* ----------------------------------------------------------------- C19

\* C19: in every built order body the side field is 0 exactly when the
\* requested side is buy and 1 exactly when the requested side is sell, and
\* feeRateBps is always 0.
C19_SideEncoding ==
  order_body # NoBody =>
    /\ order_body.side = 0 <=> args.side = "buy"
    /\ order_body.side = 1 <=> args.side = "sell"
    /\ order_body.feeRateBps = 0

\* ----------------------------------------------------------------- C20

\* the verdict of the slippage guard under the bound bps, for the best price
\* the guard compared against: the limit price is outside the bound
C20_Outside(bps) ==
  LET best == BestPrice(args.side, bids, asks)
  IN  /\ best # NoInt
      /\ \/ /\ args.side = "buy"
            /\ args.limit_price * BPS > best[1] * (BPS + bps)
         \/ /\ args.side = "sell"
            /\ args.limit_price * BPS < best[1] * (BPS - bps)

C20_Guarded == Started("price") /\ pc # "price"

\* C20: the slippage guard uses the caller's maxSlippageBps whenever the
\* caller supplies one (for every supplied value, 0 included), and the
\* configured default only when the caller supplies none.
C20_CallerSlippageUsed ==
  C20_Guarded =>
    LET bps == IF args.max_slippage_bps # NoInt THEN args.max_slippage_bps[1]
               ELSE DEFAULT_SLIPPAGE_BPS
    IN  FailedAt("price") <=> C20_Outside(bps)

\* ----------------------------------------------------------------- C17

C17_Returned == pc = "returned"

\* the string is what str() gives for a natural number
C17_IsIntegerString(str) ==
  /\ str # <<>>
  /\ \A i \in 1..Len(str) : \E c \in 1..Len(DigitChar) : DigitChar[c] = str[i]
  /\ Len(str) > 1 => str[1] # "0"

\* amount * 1,000,000 = C17_Num / C17_Den, exactly
C17_Num ==
  IF BASE_UNITS % args.amount.d = 0
    THEN args.amount.n * (BASE_UNITS \div args.amount.d)
    ELSE args.amount.n

C17_Den ==
  IF BASE_UNITS % args.amount.d = 0 THEN 1 ELSE args.amount.d \div BASE_UNITS

\* twice the signed distance from the exact product to u, times C17_Den
C17_TwiceAbove(u) == 2 * (u * C17_Den - C17_Num)

C17_IsTie(u) == C17_TwiceAbove(u) \in {C17_Den, 0 - C17_Den} /\ C17_Den > 1

C17_Nearest(u) ==
  /\ C17_TwiceAbove(u) <= C17_Den
  /\ C17_TwiceAbove(u) >= 0 - C17_Den

\* C17: the serialized price or size is the decimal value times 1,000,000
\* rounded to the nearest integer, a tie going up (half-up), as an integer
\* string, for every value.
C17_RoundedHalfUp ==
  C17_Returned =>
    /\ C17_IsIntegerString(result)
    /\ C17_Nearest(ParseInt(result))
    /\ C17_IsTie(ParseInt(result)) => C17_TwiceAbove(ParseInt(result)) > 0

\* ----------------------------------------------------------------- C18

\* the amount is a size > 0 or a limit price in (0, 1)
C18_InDomain == args.amount.n > 0

\* C18: fixed-point round trip: for every size > 0 and limit price in (0, 1),
\* to_base_units of the value, read back as an integer and divided by
\* 1,000,000, is the value within a tolerance of 1e-6 (one base unit).
C18_RoundTrip ==
  C17_Returned /\ C18_InDomain =>
    /\ C17_TwiceAbove(ParseInt(result)) <= 2 * C17_Den
    /\ C17_TwiceAbove(ParseInt(result)) >= 0 - 2 * C17_Den

\* 0.9999999 comes back as 1.000000, one tenth of a base unit away
C18_Witness ==
  /\ C17_Returned
  /\ args.amount = Amount(9999999, FineScale)
  /\ ParseInt(result) = BASE_UNITS

\* ----------------------------------------------------------------- C21

\* the ttl the claim has the builder use: the caller's when one is supplied
C21_Ttl ==
  IF args.ttl_seconds # NoInt THEN args.ttl_seconds[1] ELSE DEFAULT_TTL

\* C21: the order body's expiration is the time the order is built plus the
\* caller's ttlSeconds whenever the caller supplies one (0 included), and
\* plus the configured default TTL only when the caller supplies none.
C21_ExpirationUsesCallerTtl ==
  order_body # NoBody =>
    \E now \in Times : order_body.expiration = now + C21_Ttl

\* ----------------------------------------------------------------- C22

\* the price selector has run on a buy against a best ask of 0.60 with
\* maxSlippageBps 100 (supplied, or the default of 100)
C22_Case ==
  /\ Started("price") /\ pc # "price"
  /\ args.side = "buy"
  /\ asks # <<>> /\ asks[1][1] = 6000
  /\ args.max_slippage_bps \in {NoInt, Some(100)}

\* C22: slippage guard boundary: with best ask 0.60, side buy and
\* maxSlippageBps 100, a limit price of 0.606 (equal to the bound) is
\* accepted and a limit price of 0.6061 is rejected with the slippage error.
C22_SlippageBoundary ==
  C22_Case =>
    /\ args.limit_price = 6060 => ~FailedAt("price") /\ price = 6060
    /\ args.limit_price = 6061 =>
         /\ FailedAt("price")
         /\ err.kind = "Buy price exceeds slippage guard"
         /\ order_body = NoBody

\* the limit price on the bound went through with a supplied bound of 100
C22_Witness ==
  /\ C22_Case
  /\ args.max_slippage_bps = Some(100)
  /\ args.limit_price = 6060
  /\ price = 6060
  /\ signature # NoSig

\* ----------------------------------------------------------------- C23

\* the safety policy has run on an order of size 1000 under the cap of 500
C23_Case ==
  /\ Started("policy")
  /\ args.size = 1000

\* C23: notional cap boundary: with cap 500, an order of size 1000 at limit
\* price 0.5 (notional exactly 500) passes the safety policy, and an order of
\* size 1000 at limit price 0.5001 is rejected with the limit-exceeded error.
C23_NotionalBoundary ==
  C23_Case =>
    /\ args.limit_price = 5000 => ~FailedAt("policy")
    /\ args.limit_price = 5001 =>
         /\ FailedAt("policy")
         /\ err.kind = "Order notional exceeds cap"
         /\ reqs = <<>>

\* the order at the cap went on past the policy to the venue
C23_Witness ==
  /\ C23_Case
  /\ args.limit_price = 5000
  /\ Started("book")
  /\ reqs # <<>>

\* ----------------------------------------------------------------- C24

\* the book has no entry on the side the order would trade against
C24_NoRelevantSide ==
  \/ args.side = "buy" /\ asks = <<>>
  \/ args.side = "sell" /\ bids = <<>>
  \/ bids = <<>> /\ asks = <<>>

\* C24: when the book has no entry on the relevant side (no asks for a buy,
\* no bids for a sell, or an empty snapshot), pick_price skips the guard,
\* does not fail, and returns the limit price unchanged, for every limit
\* price and slippage bound.
C24_EmptySideSkipsGuard ==
  (Started("price") /\ pc # "price" /\ C24_NoRelevantSide) =>
    /\ ~FailedAt("price")
    /\ price = args.limit_price

\* a buy with no asks passed at a price the bids would have refused
C24_Witness ==
  /\ Started("price") /\ pc # "price"
  /\ args.side = "buy"
  /\ asks = <<>>
  /\ bids # <<>>
  /\ args.max_slippage_bps = Some(0)
  /\ args.limit_price > bids[1][1]
  /\ price = args.limit_price

\* ----------------------------------------------------------------- C25

C25_Descending(levels) ==
  \A i \in 1..(Len(levels) - 1) : levels[i][1] >= levels[i + 1][1]

C25_Ascending(levels) ==
  \A i \in 1..(Len(levels) - 1) : levels[i][1] <= levels[i + 1][1]

\* C25: every snapshot get_orderbook returns has its bids in descending and
\* its asks in ascending price order, whatever order the venue lists the
\* levels in, so the first entry the price selector reads is the highest
\* bid and the lowest ask.
C25_BookIsSorted ==
  Started("price") =>
    /\ C25_Descending(bids)
    /\ C25_Ascending(asks)
    /\ \A i \in 1..Len(bids) : bids[1][1] >= bids[i][1]
    /\ \A i \in 1..Len(asks) : asks[1][1] <= asks[i][1]

\* ----------------------------------------------------------------- C26

\* get_token_info has run on a market with tokens and an in-range index
C26_Case ==
  /\ market # NoMarket
  /\ market.tokens # <<>>
  /\ args.outcome_index >= 0
  /\ args.outcome_index < Len(market.tokens)

C26_Chosen == market.tokens[args.outcome_index + 1]

\* C26: for a market with a non-empty token list and an in-range
\* outcomeIndex, get_token_info returns the token id of tokens[outcomeIndex]
\* and an outcome-label list with exactly one label per token in the market's
\* token order, label i being token i's; it fails if the chosen token has no
\* token id.
C26_TokenAndLabels ==
  C26_Case =>
    IF C26_Chosen.token_id \in {NoneStr, ""}
      THEN /\ FailedAt("resolver")
           /\ err.kind = "Missing token_id for selected outcome"
      ELSE /\ ~FailedAt("resolver")
           /\ token_id = C26_Chosen.token_id
           /\ tokens = market.tokens
           /\ Len(outcomes) = Len(market.tokens)
           /\ \A i \in 1..Len(market.tokens) :
                market.tokens[i].outcome \notin {NoneStr, ""} =>
                  outcomes[i] = market.tokens[i].outcome
           /\ result # NoResult =>
                result.tokenId = token_id /\ result.outcomes = outcomes

\* the third token of a three-outcome market whose second token has no label
C26_Witness ==
  /\ C26_Case
  /\ market = MktThree
  /\ args.outcome_index = 2
  /\ token_id = "13"
  /\ Len(outcomes) = 3
  /\ outcomes[3] = "C"
  /\ Started("book")

\* ----------------------------------------------------------------- C27

\* the book client is done, and siblings of the primary token were supplied
C27_Case ==
  /\ Started("book") /\ pc \notin {"book", "alt"}
  /\ \E i \in 1..Len(tokens) :
       tokens[i].token_id \notin {NoneStr, "", token_id}

C27_Primary == Requests("book")[1]

C27_PrimaryEmpty ==
  /\ C27_Primary.kind = "ok"
  /\ C27_Primary.book = EmptyBook

\* C27 (as stated): if the primary fetch returns a book with no bids and no
\* asks and siblings were supplied, the sibling tokens' books are tried.
C27_FallbackOnEmptyBook ==
  (C27_Case /\ C27_PrimaryEmpty) => Len(Requests("book")) > 1

\* C27 (amended): the book client falls back to the sibling tokens only when
\* the primary fetch answers non-2xx: a 2xx primary book is returned as it
\* is, also with no bids and no asks, and no sibling's book is requested.
C27_FallbackOnlyOnNon2xx ==
  C27_Case =>
    /\ C27_Primary.kind = "ok" =>
         /\ Len(Requests("book")) = 1
         /\ ~FailedAt("book")
         /\ bids = C27_Primary.book.bids
         /\ asks = C27_Primary.book.asks
    /\ Len(Requests("book")) > 1 => C27_Primary.kind = "fail"

\* an empty 2xx primary book went to the price selector, siblings untouched
C27_Witness ==
  /\ C27_Case
  /\ C27_PrimaryEmpty
  /\ Len(Requests("book")) = 1
  /\ Started("price")
  /\ bids = <<>> /\ asks = <<>>
  /\ ~(args.dry_run /\ env.allow)

\* ----------------------------------------------------------------- C29

C29_Pages == Requests("page")

\* the requested id is, case-insensitively, one of the market's three ids
C29_HasRequestedId(m) ==
  \E k \in {m.condition_id, m.id, m.question_id} :
    k # NoneStr /\ Lower(k) = Lower(args.market_id)

\* C29: the resolver issues the point lookup first and only once, and pages
\* are requested only after it; the first page request carries the empty
\* cursor and each later one the next-cursor the page before returned; no
\* market the resolver compared and passed over (the lookup's, or one listed
\* before the returned market or on an earlier page) carries the requested
\* id, so the returned market is the first match in page and listing order;
\* and the page that held the returned market is the last page requested.
C29_LookupThenScanInOrder ==
  /\ \A i \in 1..Len(reqs) : reqs[i].ep = "lookup" => i = 1
  /\ C29_Pages # <<>> => reqs[1].ep = "lookup"
  /\ \A i \in 1..Len(C29_Pages) :
       /\ i - 1 <= Len(cursors)
       /\ C29_Pages[i].arg = (IF i = 1 THEN "" ELSE cursors[i - 1])
  /\ \A m \in passed_over : ~C29_HasRequestedId(m)
  /\ market # NoMarket /\ C29_Pages # <<>> =>
       /\ Len(cursors) = Len(C29_Pages) - 1
       /\ \A i \in 1..Len(reqs) :
            reqs[i].ep = "page" => reqs[i].kind = "ok"

\* the market was found on the second page, behind a market that was
\* compared and passed over
C29_Witness ==
  /\ reqs # <<>>
  /\ reqs[1].ep = "lookup"
  /\ Len(C29_Pages) = 2
  /\ C29_Pages[2].arg = "c1"
  /\ market # NoMarket
  /\ passed_over # {}

\* ----------------------------------------------------------------- C30

C30_SameRequest(i, j) ==
  /\ reqs[i].ep = reqs[j].ep
  /\ reqs[i].arg = reqs[j].arg

\* C30: within one invocation no two requests have the same endpoint and
\* the same parameter (market id of the lookup, cursor of a page fetch,
\* token id of a book fetch, payload of the submission), whatever the venue
\* answers.
C30_NoRequestTwice ==
  \A i \in 1..Len(reqs) : \A j \in (i + 1)..Len(reqs) : ~C30_SameRequest(i, j)

\* ----------------------------------------------------------------- C31

C31_Books == Requests("book")

\* C31: no sibling book is fetched speculatively: the first book request is
\* for the primary token, a request for a sibling is issued only when every
\* book request before it has completed without a 2xx answer, so a primary
\* fetch that succeeded is the only book request of the invocation, and no
\* step issues more than one request.
C31_NoSpeculativeFetch ==
  /\ C31_Books # <<>> => C31_Books[1].arg = token_id
  /\ \A k \in 2..Len(C31_Books) :
       \A j \in 1..(k - 1) : C31_Books[j].kind # "ok"
  /\ (C31_Books # <<>> /\ C31_Books[1].kind = "ok") => Len(C31_Books) = 1
  /\ \A k \in 1..Len(C31_Books) :
       C31_Books[k].kind = "ok" => k = Len(C31_Books)

\* a sibling's book was fetched after the primary answered non-2xx
C31_Witness ==
  /\ Len(C31_Books) = 2
  /\ C31_Books[1].kind = "fail"
  /\ C31_Books[2].kind = "ok"
  /\ C31_Books[2].arg # token_id
  /\ pc = "build"

\* ----------------------------------------------------------------- C32

\* the token the caller asked to trade
C32_Requested ==
  IF args.token_id \notin {NoneStr, ""}
    THEN args.token_id
    ELSE market.tokens[args.outcome_index + 1].token_id

\* C32: in every result execute_order returns, the order body's token_id is
\* the result's tokenId, and that is the token id the caller supplied, or,
\* when none was supplied, the token id of tokens[outcomeIndex] of the
\* resolved market, also when the book that was returned is a sibling's.
C32_TokenNeverSubstituted ==
  result # NoResult =>
    /\ result.orderBody.token_id = result.tokenId
    /\ result.tokenId = C32_Requested
    /\ result.signature.message.tokenId = IntTable[C32_Requested]

\* a result whose book came from a sibling of the requested token
C32_Witness ==
  /\ result # NoResult
  /\ args.token_id = NoneStr
  /\ warnings # <<>>
  /\ Requests("book")[Len(Requests("book"))].arg # result.tokenId

\* ----------------------------------------------------------------- C33

\* C33: the price selector rejects the order or passes the limit price
\* through: the price it returned is the requested limitPrice, and in every
\* result usedPrice is the requested limitPrice and the order body's price
\* is the base-unit conversion of the requested limitPrice, never a price
\* of the book.
C33_UsedPriceIsLimitPrice ==
  /\ price # NoPrice => price = args.limit_price
  /\ order_body # NoBody =>
       order_body.price = to_base_units(args.limit_price, PriceScale)
  /\ result # NoResult =>
       /\ result.usedPrice = args.limit_price
       /\ result.limitPrice = args.limit_price
       /\ result.orderBody.price = to_base_units(args.limit_price, PriceScale)

\* a result of a buy that passed the guard against a best ask other than
\* its limit price
C33_Witness ==
  /\ result # NoResult
  /\ args.side = "buy"
  /\ asks # <<>>
  /\ asks[1][1] # args.limit_price
  /\ result.usedPrice = 6060

\* ----------------------------------------------------------------- C34

\* a book fetch issued before request i returned 2xx
C34_BookFetchedBefore(i) ==
  \E j \in 1..(i - 1) : reqs[j].ep = "book" /\ reqs[j].kind = "ok"

\* C34: a request to the order-submission endpoint is issued only in live
\* mode and only after a book fetch of the same invocation, for the primary
\* token or a sibling, returned 2xx; with the empty-book opt-in set, a live
\* invocation whose book fetches all failed still issues none.
C34_LiveSubmitNeedsBook ==
  /\ \A i \in 1..Len(reqs) :
       reqs[i].ep = "submit" => ~args.dry_run /\ C34_BookFetchedBefore(i)
  /\ posted # <<>> => Requests("submit") # <<>>

\* a live order was submitted with the opt-in set, after the primary's book
\* fetch failed and a sibling's succeeded
C34_Witness ==
  /\ ~args.dry_run
  /\ env.allow
  /\ Len(Requests("submit")) = 1
  /\ Len(Requests("book")) = 2
  /\ Requests("book")[1].kind = "fail"
  /\ Requests("book")[2].kind = "ok"

\* ----------------------------------------------------------------- C35

C35_TokenSupplied == args.token_id \notin {NoneStr, ""}

\* the book client is over: the one fetch it made did not return a book
C35_FetchFailed ==
  /\ pc \notin {"book", "alt"}
  /\ Len(Requests("book")) = 1
  /\ Requests("book")[1].kind # "ok"

\* C35: with a caller-supplied tokenId no market lookup and no page request
\* is issued and no market is resolved, the resolver stage never fails
\* (whatever outcomeIndex is), the outcome-label list is empty, and the only
\* book request is the one for the supplied token: when it fails, the book
\* client fails, or yields the empty book under dry-run plus opt-in.
C35_SuppliedTokenSkipsResolution ==
  C35_TokenSupplied =>
    /\ Requests("lookup") = <<>>
    /\ Requests("page") = <<>>
    /\ market = NoMarket
    /\ err.stage # "resolver"
    /\ outcomes = <<>>
    /\ result # NoResult => result.outcomes = <<>> /\ result.tokenId = args.token_id
    /\ Len(Requests("book")) <= 1
    /\ \A i \in 1..Len(reqs) : reqs[i].ep = "book" => reqs[i].arg = args.token_id
    /\ C35_FetchFailed =>
         IF args.dry_run /\ env.allow
           THEN bids = <<>> /\ asks = <<>> /\ err.stage # "book"
           ELSE FailedAt("book")

\* the supplied token's book fetch answered non-2xx for a call whose
\* outcomeIndex no market was asked about, and the book client failed
C35_Witness ==
  /\ C35_TokenSupplied
  /\ args.outcome_index = -1
  /\ C35_FetchFailed
  /\ Requests("book")[1].kind = "fail"
  /\ FailedAt("book")
  /\ reqs[1].ep = "book"

\* ----------------------------------------------------------------- C36

\* the request asks for a live order in so many words: dryRun is false
C36_ExplicitlyLive == caller.via = "endpoint" /\ caller.dryRun = Some(FALSE)

C36_Called == args # NoArgs

\* C36: a live submission happens only for an endpoint request whose dryRun
\* is explicitly false: the endpoint calls execute_order with dry_run true
\* when the request omits dryRun, the script calls it with dry_run true with
\* and without its flag, and the order-submission endpoint is requested for
\* no other caller; whenever execute_order failed the endpoint answers 400
\* with the error and never a result, and it answers 200 only with the
\* result execute_order returned.
C36_LiveOnlyOnExplicitFalse ==
  /\ C36_Called => (args.dry_run <=> ~C36_ExplicitlyLive)
  /\ (Requests("submit") # <<>> \/ posted # <<>>) => C36_ExplicitlyLive
  /\ (caller.via = "endpoint" /\ reply # NoReply) =>
       IF pc = "failed"
         THEN reply = [status |-> 400, detail |-> err.kind] /\ result = NoResult
         ELSE pc = "done" /\ reply = [status |-> 200, body |-> result]

\* the endpoint answered a request that omits dryRun with a simulated order
C36_Witness ==
  /\ caller.via = "endpoint"
  /\ caller.dryRun = NoInt
  /\ reply.status = 200
  /\ reply.body.response.dryRun
  /\ posted = <<>>

\* ----------------------------------------------------------------- C37

\* request i is a page fetch that answered non-2xx
C37_PageRefused(i) == reqs[i].ep = "page" /\ reqs[i].kind = "fail"

\* C37: a page fetch of the scan that answers non-2xx is the last request
\* of the invocation: the resolver fails with the markets-fetch error, no
\* market is returned, and no book fetch, order body, signature, submission
\* or result follows.
C37_PageFailureEndsResolution ==
  \A i \in 1..Len(reqs) :
    C37_PageRefused(i) =>
      /\ i = Len(reqs)
      /\ FailedAt("resolver")
      /\ err.kind = "CLOB markets fetch failed"
      /\ market = NoMarket
      /\ token_id = NoneStr
      /\ stages[Len(stages)] = "resolver"
      /\ order_body = NoBody
      /\ signature = NoSig
      /\ posted = <<>>
      /\ result = NoResult

\* the second page of the scan answered non-2xx
C37_Witness ==
  /\ Len(Requests("page")) = 2
  /\ Requests("page")[1].kind = "ok"
  /\ C37_PageRefused(Len(reqs))
  /\ FailedAt("resolver")

\* ----------------------------------------------------------------- C38

C38_Calls == Requests("chat")

C38_Returned == pc = "returned"

\* at most `attempts` calls, numbered in order, and the helper raises only
\* before its first call
C38_Bounded ==
  /\ Len(C38_Calls) <= args.attempts
  /\ \A i \in 1..Len(C38_Calls) : C38_Calls[i].arg = i
  /\ Failed => C38_Calls = <<>>

\* a wait follows a failed attempt that is not the last, two consecutive
\* attempts are separated by one wait, and attempt n is followed by a wait
\* of n times the delay
C38_Waits ==
  \A k \in 1..Len(reqs) :
    /\ reqs[k].ep = "sleep" =>
         /\ k > 1
         /\ reqs[k - 1].ep = "chat"
         /\ reqs[k - 1].arg < args.attempts
         /\ reqs[k].arg = args.delay_seconds * reqs[k - 1].arg
         /\ k < Len(reqs) => reqs[k + 1].ep = "chat"
    /\ (reqs[k].ep = "chat" /\ k > 1) => reqs[k - 1].ep = "sleep"
    /\ (reqs[k].ep = "chat" /\ k = Len(reqs) /\ ~C38_Returned) =>
         reqs[k].arg = args.attempts

\* text without the white space at its two ends
C38_IsStripped(v, text) ==
  /\ v = <<>> \/ (~IsSpace(v[1]) /\ ~IsSpace(v[Len(v)]))
  /\ \E i \in 0..Len(text) : \E j \in i..Len(text) :
       /\ v = SubSeq(text, i + 1, j)
       /\ \A k \in (1..i) \cup ((j + 1)..Len(text)) : IsSpace(text[k])

\* C38 as stated: at most `attempts` calls (3 by default); the first call
\* that succeeds is the last call and its content is what is returned; the
\* helper waits between two consecutive attempts and not after the last;
\* and it returns None, and does not raise, exactly when all attempts
\* failed.
C38_ReturnsFirstContent ==
  /\ C38_Bounded
  /\ C38_Waits
  /\ \A i \in 1..Len(C38_Calls) :
       C38_Calls[i].kind = "ok" =>
         /\ i = Len(C38_Calls)
         /\ C38_Returned
         /\ result.returned = C38_Calls[i].content
  /\ C38_Returned =>
       (result.returned = NoInt <=>
          /\ Len(C38_Calls) = args.attempts
          /\ \A i \in 1..Len(C38_Calls) : C38_Calls[i].kind # "ok")

\* an attempt succeeds when the call returns a response whose content is a
\* text; it fails when the call raises or the content is None
C38_Succeeded(c) == c.kind = "ok" /\ c.content # NoInt

\* C38 amended: at most `attempts` calls (3 by default); the first attempt
\* that succeeds, its call returning a response with a text content, is the
\* last call, and that content without the white space at its two ends is
\* what is returned; the helper waits between two consecutive attempts and
\* not after the last; and it returns None, and does not raise, exactly
\* when all attempts failed, by an exception of the call or a response
\* without text content.
C38_ReturnsFirstStrippedContent ==
  /\ C38_Bounded
  /\ C38_Waits
  /\ \A i \in 1..Len(C38_Calls) :
       C38_Succeeded(C38_Calls[i]) =>
         /\ i = Len(C38_Calls)
         /\ C38_Returned
         /\ result.returned # NoInt
         /\ C38_IsStripped(result.returned[1], C38_Calls[i].content[1])
  /\ C38_Returned =>
       (result.returned = NoInt <=>
          /\ Len(C38_Calls) = args.attempts
          /\ \A i \in 1..Len(C38_Calls) : ~C38_Succeeded(C38_Calls[i]))

\* the third of three attempts returned a padded text, after a call that
\* raised and a response without content, with a wait after each of them
C38_Witness ==
  /\ args.attempts = 3
  /\ Len(reqs) = 5
  /\ reqs[1].kind = "exc"
  /\ reqs[2] = Sleep(DELAY_DEFAULT)
  /\ reqs[3].kind = "ok" /\ reqs[3].content = NoInt
  /\ reqs[4] = Sleep(2 * DELAY_DEFAULT)
  /\ reqs[5].content = Some(<<" ", "y", "\n">>)
  /\ result = [returned |-> Some(<<"y">>)]


====
